---- MODULE Spec2Model ----
(***************************************************************************)
(* Control core of the RC vehicle firmware:                                *)
(*   - esp32_s3/main/vehicle_control.cpp : vehicle_control_task, the       *)
(*     single-slot Wi-Fi command queue and VehicleControlOnWifiCommand;    *)
(*   - stm32/main/main.cpp : the main loop, fed by the ESP32 bridge        *)
(*     (esp32/main/uart_bridge.cpp : UartBridgeSendCommand);               *)
(*   - stm32/main/failsafe.cpp and esp32_s3/main/failsafe.cpp.             *)
(*                                                                         *)
(* Numbers.  float throttle/steering values are fixed-point integers with  *)
(* ONE units for 1.0f (rounding of float arithmetic is not modelled).      *)
(* uint32_t millisecond timestamps are integers modulo 2^TimerBits.        *)
(*                                                                         *)
(* One loop iteration is six steps (pc): "rc", "cmd", "imu", "failsafe",   *)
(* "pwm", "telem", in the order of each target's loop body; "telem" ends   *)
(* with the loop's delay and the next read of the clock.  The whole body   *)
(* runs within one millisecond of the clock: FailsafeUpdate's own clock    *)
(* read returns the loop's now.                                           *)
(***************************************************************************)
EXTENDS Integers, Sequences, FiniteSets, TLC

VARIABLES
  target,                  \* "s3" (vehicle_control_task) or "stm32" (main)
  pc,                      \* next step of the loop body
  now,                     \* `now` of the current iteration
  s_rc_enabled,            \* vehicle_control.cpp:31
  s_cmd_queue,             \* vehicle_control.cpp:30, queue of length 1
  uart_rx,                 \* stm32: COMMAND frames received and not yet parsed
  cmd,                     \* command received in this iteration, <<>> if none
  rc_throttle,             \* result of the latest RcInputReadThrottle, <<>> if no value
  rc_steering,             \* result of the latest RcInputReadSteering, <<>> if no value
  rc_active,
  wifi_active,
  commanded_throttle,      \* s3
  commanded_steering,      \* s3
  applied_throttle,        \* s3
  applied_steering,        \* s3
  current_throttle,        \* stm32 main.cpp:26
  current_steering,        \* stm32 main.cpp:27
  last_pwm_update,
  last_rc_poll,
  last_failsafe_update,
  last_telem_send,
  last_wifi_cmd_ms,        \* s3
  failsafe_active,         \* failsafe.cpp:5
  last_active_source_time, \* failsafe.cpp:6
  pwm_throttle,            \* value last handed to the throttle PWM channel
  pwm_steering,            \* value last handed to the steering PWM channel
  fs_ret,                  \* FailsafeUpdate's result in this iteration: "skip", "true", "false"
  fs_prev,                 \* history: failsafe_active before the latest FailsafeUpdate call
  last_supply,             \* history: clock of the latest command supplied by RC or network
  pending,                 \* history: the commands submitted since the last drain, in order
  expect,                  \* history: `pending` at the latest drain
  sub,                     \* history: command submitted while RC was active, not yet due
  raw,                     \* history: arguments of the latest command submission
  events,                  \* number of environment events so far
  fn_in,                   \* arguments of a function under check
  fn_out,                  \* its result
  s_last_throttle_pulse_time_us,   \* rc_input.cpp:18
  s_last_steering_pulse_time_us,   \* rc_input.cpp:19
  s_last_throttle_pulse_width_us,  \* rc_input.cpp:20
  s_last_steering_pulse_width_us,  \* rc_input.cpp:21
  s_last_rise_throttle_us,         \* rc_input.cpp:22
  s_last_rise_steering_us,         \* rc_input.cpp:23
  s_rc_mux,                \* rc_input.cpp:16: "free", or who is inside: "isr", "task"
  timer_us,                \* (uint32_t)esp_timer_get_time()
  pin,                     \* level of each RC input pin
  isr,                     \* gpio_isr_handler in progress: its position and locals
  rd,                      \* RcInputRead* in progress: its position and locals
  real_us,                 \* history: time since start, not truncated
  phys_rise,               \* history: per pin, real time of the pulse's rising edge
  good,                    \* history: per pin, real time of the latest in-range
                           \*   falling edge whose ISR has returned
  stamp_t,                 \* history: per pin, real time of the edge that wrote
                           \*   s_last_*_pulse_time_us
  stamp_w,                 \* history: the same for s_last_*_pulse_width_us
  ticks,                   \* number of time steps so far
  edges,                   \* number of edges so far
  pwm_inited,              \* pwm_control.cpp: s_inited (s3), initialized (stm32)
  boot_in,                 \* history: results of the init calls, <<>> before start
  init_ret,                \* result of VehicleControlInit, "none" before it returns
  s_imu_enabled,           \* vehicle_control.cpp:32
  imu_data,                \* ImuData of the loop: <<ax, ay, az, gx, gy, gz>>
  last_imu_read,
  imu_ret,                 \* result of ImuRead in this iteration: "none", "ok", "fail"
  telem_seq,               \* stm32 main.cpp:73
  telem,                   \* history: telemetry built in the iteration that has
                           \*   just ended, <<>> if none
  frames,                  \* history: number of telemetry frames built so far
  esp_link,                \* history: esp32, "link" object built from that telemetry
  loop_ms,                 \* time one loop iteration takes in this run, ms
  wifi_acc                 \* history: s3, time since start at which the control
                           \*   task last accepted a network command, Never if none

rcVars == <<s_last_throttle_pulse_time_us, s_last_steering_pulse_time_us,
            s_last_throttle_pulse_width_us, s_last_steering_pulse_width_us,
            s_last_rise_throttle_us, s_last_rise_steering_us, s_rc_mux,
            timer_us, pin, isr, rd, real_us, phys_rise, good, stamp_t, stamp_w,
            ticks, edges>>

bootVars == <<pwm_inited, boot_in, init_ret>>
imuVars == <<s_imu_enabled, imu_data, last_imu_read, imu_ret>>
telemVars == <<telem_seq, telem, frames, esp_link>>
paceVars == <<loop_ms, wifi_acc>>

vars == <<target, pc, now, s_rc_enabled, s_cmd_queue, uart_rx, cmd, rc_throttle,
          rc_steering, rc_active, wifi_active, commanded_throttle,
          commanded_steering, applied_throttle, applied_steering,
          current_throttle, current_steering, last_pwm_update, last_rc_poll,
          last_failsafe_update, last_telem_send, last_wifi_cmd_ms,
          failsafe_active, last_active_source_time, pwm_throttle, pwm_steering,
          fs_ret, fs_prev, last_supply, pending, expect, sub, raw, events,
          fn_in, fn_out, rcVars, paceVars, bootVars, imuVars, telemVars>>

loopVars == <<target, pc, now, s_rc_enabled, s_cmd_queue, uart_rx, cmd,
              rc_throttle, rc_steering, rc_active, wifi_active,
              commanded_throttle, commanded_steering, applied_throttle,
              applied_steering, current_throttle, current_steering,
              last_pwm_update, last_rc_poll, last_failsafe_update,
              last_telem_send, last_wifi_cmd_ms, failsafe_active,
              last_active_source_time, pwm_throttle, pwm_steering, fs_ret,
              fs_prev, last_supply, pending, expect, sub, raw, events>>

fnVars == <<fn_in, fn_out>>

\* the variables the RC capture steps leave alone
restVars == <<loopVars, fnVars, paceVars, bootVars, imuVars, telemVars>>

----------------------------------------------------------------------------
(* Bounds of the model *)

TimerBits == 10      \* width of the millisecond counters
LoopMs == 9          \* time one loop iteration takes (body plus delay)
MaxTime == 300       \* the loop is followed for MaxTime ms after start
MaxEvents == 2       \* submissions, new RC readings, failed IMU reads in a run
BootOffset == 126    \* the loop starts BootOffset ms before the counter wraps
SeqBits == 2         \* width of the telemetry sequence number

(* Program constants *)

ONE == 2000                            \* 1.0f
PWM_UPDATE_INTERVAL_MS == 20
RC_IN_POLL_INTERVAL_MS == 20
TELEM_SEND_INTERVAL_MS == 50
IMU_READ_INTERVAL_MS == 20
FAILSAFE_TIMEOUT_MS == 250
FAILSAFE_UPDATE_INTERVAL_MS == 10
WIFI_CMD_TIMEOUT_MS == 250
SLEW_RATE_THROTTLE_MAX_PER_SEC == ONE \div 2
SLEW_RATE_STEERING_MAX_PER_SEC == ONE

TimerMod == 2 ^ TimerBits
SeqMod == 2 ^ SeqBits
BootMs == TimerMod - BootOffset

\* mutant: the difference is taken on a wider type
Sub32NoWrap(a, b) == a - b

\* a - b on uint32_t
Sub32(a, b) == (a - b) % TimerMod
Add32(a, b) == (a + b) % TimerMod

Abs(x) == IF x < 0 THEN -x ELSE x

Cmd(t, s) == [throttle |-> t, steering |-> s]

----------------------------------------------------------------------------
(* Pure functions *)

\* mutant: the step is applied without comparing it with the distance left
ApplySlewRateOvershoot(tgt, current, max_per_sec, dt_ms) ==
  LET max_change == (max_per_sec * dt_ms) \div 1000
      diff == tgt - current
  IN  IF diff > 0 THEN current + max_change
      ELSE IF diff < 0 THEN current - max_change
      ELSE tgt

\* stm32/main/main.cpp:31-40
ApplySlewRate(tgt, current, max_per_sec, dt_ms) ==
  LET max_change == (max_per_sec * dt_ms) \div 1000
      diff == tgt - current
  IN  IF diff > max_change THEN current + max_change
      ELSE IF diff < -max_change THEN current - max_change
      ELSE tgt

\* slew_rate.hpp (esp32_s3 includes it; spec 4.5)
SlewRateCommon(tgt, current, max_per_sec, dt_ms) ==
  LET max_change == (max_per_sec * dt_ms) \div 1000
  IN  IF Abs(tgt - current) <= max_change THEN tgt
      ELSE IF tgt > current THEN current + max_change
      ELSE current - max_change

\* rc_vehicle::ClampNormalized (rc_vehicle_common.hpp; spec 3 and 6)
ClampNormalized(v) == IF v > ONE THEN ONE ELSE IF v < -ONE THEN -ONE ELSE v

\* mutant: the lower limit is not applied
BridgeClampUpperOnly(v) == IF v > ONE THEN ONE ELSE v

\* esp32/main/uart_bridge.cpp:63-66, per argument
BridgeClamp(v) ==
  LET a == IF v > ONE THEN ONE ELSE v
  IN  IF a < -ONE THEN -ONE ELSE a

\* mutant: the clock is compared with the timeout, not the elapsed time
FailsafeUpdateNoElapsed(t, rc, wifi, active, last) ==
  IF rc \/ wifi THEN <<FALSE, t>>
  ELSE IF t >= FAILSAFE_TIMEOUT_MS THEN <<TRUE, last>>
  ELSE <<active, last>>

\* mutant: an active source does not clear the failsafe
FailsafeUpdateLatched(t, rc, wifi, active, last) ==
  IF rc \/ wifi THEN <<active, t>>
  ELSE IF Sub32(t, last) >= FAILSAFE_TIMEOUT_MS THEN <<TRUE, last>>
  ELSE <<active, last>>

\* stm32/main/failsafe.cpp:13-24: the new <<failsafe_active, last_active_source_time>>
FailsafeUpdate(t, rc, wifi, active, last) ==
  IF rc \/ wifi THEN <<FALSE, t>>
  ELSE IF Sub32(t, last) >= FAILSAFE_TIMEOUT_MS THEN <<TRUE, last>>
  ELSE <<active, last>>

\* rc_vehicle::FailsafeUpdate (failsafe_core.hpp; spec 3 and 4.4)
FailsafeCoreUpdate(t, rc, wifi, active, last) ==
  IF rc \/ wifi THEN <<FALSE, t>>
  ELSE <<(active \/ Sub32(t, last) >= FAILSAFE_TIMEOUT_MS), last>>

\* mutant: xQueueSend with no wait, which leaves a full queue as it is
QueueSendIfEmpty(q, c) == IF q = <<>> THEN <<c>> ELSE q

\* vehicle_control.cpp:251, xQueueOverwrite on the queue of length 1
QueueOverwrite(q, c) == <<c>>

\* vehicle_control.cpp:83: Wi-Fi commands are taken only while RC is not active
WifiCmdAccepted(rc) == ~rc

\* mutant: the command is taken whatever rc_active is
UartCmdAcceptedAlways(rc) == TRUE

\* stm32/main/main.cpp:104
UartCmdAccepted(rc) == ~rc

\* mutant: the network source counts as active whatever RC is
WifiActiveIgnoringRc(rc, last_cmd, t) ==
  (last_cmd # 0) /\ (Sub32(t, last_cmd) < WIFI_CMD_TIMEOUT_MS)

\* vehicle_control.cpp:91-92
WifiActive(rc, last_cmd, t) ==
  (~rc) /\ (last_cmd # 0) /\ (Sub32(t, last_cmd) < WIFI_CMD_TIMEOUT_MS)

----------------------------------------------------------------------------
(* Inputs *)

MaxUartFrames == 1   \* COMMAND frames the stm32 receive buffer holds unparsed

\* arguments of a command submission <<throttle, steering>>: 5.0 and -5.0,
\* -1.5 and 1.5, 0.01 and -0.02
WifiInputs == { <<5 * ONE, -5 * ONE>>, <<-(3 * ONE) \div 2, (3 * ONE) \div 2>>,
                <<ONE \div 100, -(ONE \div 50)>> }

\* results of one RC poll <<throttle, steering>>: no signal, (0.8, 0.0),
\* (-0.5, 0.5), and a throttle pulse without a fresh steering pulse
RcReadings == { << <<>>, <<>> >>,
                << <<(4 * ONE) \div 5>>, <<0>> >>,
                << <<-(ONE \div 2)>>, <<ONE \div 2>> >>,
                << <<(4 * ONE) \div 5>>, <<>> >> }

Elapsed == Sub32(now, BootMs)

----------------------------------------------------------------------------
(* IMU and telemetry.  ImuData floats are integers in units of 1e-4 (g and    *)
(* deg/s); the int16_t telemetry fields are in units of 1e-3.                *)

MPU6050_ACCEL_SCALE == 16384
MPU6050_GYRO_SCALE == 131

ImuZero == <<0, 0, 0, 0, 0, 0>>

\* raw register values of one sample: 1 g, -0.5 g, 0, 1 deg/s, -2 deg/s, 0
ImuRaw == { <<16384, -8192, 0, 131, -262, 0>> }

\* results of the six ReadReg16 calls of one read: all succeed, or the k-th fails
XferFailAt(k) == [i \in 1..6 |-> IF i = k THEN -1 ELSE 0]
ImuTransfers == { XferFailAt(k) : k \in 0..6 }

\* a / b with the fraction dropped (toward zero), b > 0
TruncDiv(a, b) == IF a >= 0 THEN a \div b ELSE -((-a) \div b)

\* common/mpu6050_spi.cpp:57-85: <<return value, *data after the call>>
Mpu6050Read(initialized, has_data, xfer, regs, data) ==
  IF ~initialized \/ ~has_data THEN <<-1, data>>
  ELSE IF \E i \in 1..6 : xfer[i] # 0 THEN <<-1, data>>
  ELSE <<0, [i \in 1..6 |->
               IF i <= 3 THEN TruncDiv(regs[i] * 10000, MPU6050_ACCEL_SCALE)
               ELSE TruncDiv(regs[i] * 10000, MPU6050_GYRO_SCALE)]>>

\* stm32/main/imu.cpp: the stub ImuRead writes zeros and returns 0
StmImuReadStub(initialized, data) ==
  IF ~initialized THEN <<-1, data>> ELSE <<0, ImuZero>>

\* stm32/main/imu.cpp:22-32: (int16_t)(value * 1000), truncation toward 0
ImuConvertToTelem(data) ==
  [i \in 1..6 |-> IF data[i] >= 0 THEN data[i] \div 10
                  ELSE -((-data[i]) \div 10)]

\* mutant: bit0 and bit1 exchanged
StatusByteSwapped(rc, wifi, fs) ==
  (IF rc THEN 2 ELSE 0) + (IF wifi THEN 1 ELSE 0) + (IF fs THEN 4 ELSE 0)

\* stm32/main/main.cpp:132-138
StatusByte(rc, wifi, fs) ==
  (IF rc THEN 1 ELSE 0) + (IF wifi THEN 2 ELSE 0) + (IF fs THEN 4 ELSE 0)

\* (status & mask) != 0 for a one-bit mask
BitSet(status, mask) == (status \div mask) % 2 = 1

\* mutant: the sequence number stops at its largest value
NextSeqSaturating(seq) == IF seq = SeqMod - 1 THEN seq ELSE seq + 1

\* stm32/main/main.cpp:131: telem_seq++ on a uint16_t
NextSeq(seq) == (seq + 1) % SeqMod

\* stm32/main/main.cpp:131-141
StmTelemFrame(seq, rc, wifi, fs, data) ==
  [seq |-> seq, status |-> StatusByte(rc, wifi, fs),
   imu |-> ImuConvertToTelem(data)]

\* esp32/main/main.cpp:63-69
EspLink(frame) ==
  [rc_ok |-> BitSet(frame.status, 1), wifi_ok |-> BitSet(frame.status, 2)]

\* esp32_s3/main/vehicle_control.cpp:137-169
S3TelemJson(rc, wifi, fs, imu_enabled, data, at, as) ==
  IF imu_enabled
  THEN [type |-> "telem", mcu_pong_ok |-> TRUE,
        link |-> [rc_ok |-> rc, wifi_ok |-> wifi, failsafe |-> fs],
        imu |-> data, act |-> [throttle |-> at, steering |-> as]]
  ELSE [type |-> "telem", mcu_pong_ok |-> TRUE,
        link |-> [rc_ok |-> rc, wifi_ok |-> wifi, failsafe |-> fs],
        act |-> [throttle |-> at, steering |-> as]]

\* what the init calls returned when every one of them succeeded
BootAllOk == [pwm |-> TRUE, rc |-> TRUE, imu |-> TRUE, queue |-> TRUE, task |-> TRUE]

----------------------------------------------------------------------------
(* RC pulse capture (esp32_s3/main/rc_input.cpp): constants and the state    *)
(* before the first edge.  uint32_t microsecond timestamps are integers      *)
(* modulo 2^UsBits.                                                          *)

UsBits == 20             \* width of the microsecond counters
UsBootOffset == 1500     \* the first edge can come UsBootOffset us before the counter wraps
MaxTicks == 3            \* time steps in a run
MaxEdges == 4            \* edges on the RC pins in a run

RC_IN_THROTTLE_PIN == 4
RC_IN_STEERING_PIN == 5
RC_IN_PULSE_MIN_US == 1000
RC_IN_PULSE_MAX_US == 2000
RC_IN_PULSE_NEUTRAL_US == 1500
RC_IN_TIMEOUT_MS == 250

UsMod == 2 ^ UsBits
SubUs(a, b) == (a - b) % UsMod

Pins == {RC_IN_THROTTLE_PIN, RC_IN_STEERING_PIN}
Never == 0 - 1           \* history: no such edge yet (below every time stamp)

\* rc_input.cpp:16-23, and no edge seen, no call in progress
RcIdle ==
  /\ s_last_throttle_pulse_time_us = 0
  /\ s_last_steering_pulse_time_us = 0
  /\ s_last_throttle_pulse_width_us = 0
  /\ s_last_steering_pulse_width_us = 0
  /\ s_last_rise_throttle_us = 0
  /\ s_last_rise_steering_us = 0
  /\ s_rc_mux = "free"
  /\ timer_us = UsMod - UsBootOffset
  /\ pin = [p \in Pins |-> 0]
  /\ isr = [pc |-> "idle"]
  /\ rd = [pc |-> "idle"]
  /\ real_us = 0
  /\ phys_rise = [p \in Pins |-> Never]
  /\ good = [p \in Pins |-> Never]
  /\ stamp_t = [p \in Pins |-> Never]
  /\ stamp_w = [p \in Pins |-> Never]
  /\ ticks = 0
  /\ edges = 0

----------------------------------------------------------------------------
(* State after construction: VehicleControlInit has returned ESP_OK and the   *)
(* control task starts (target "s3"), or main has run its init calls and      *)
(* enters the loop (target "stm32").                                          *)

LoopStart ==
  /\ target \in {"s3", "stm32"}
  /\ pc = IF target = "s3" THEN "rc" ELSE "pwm"
  /\ now = BootMs
  /\ s_rc_enabled \in (IF target = "s3" THEN BOOLEAN ELSE {TRUE})
  /\ s_cmd_queue = <<>>
  /\ uart_rx = <<>>
  /\ cmd = <<>>
  /\ rc_throttle = <<>>
  /\ rc_steering = <<>>
  /\ rc_active = FALSE
  /\ wifi_active = FALSE
  /\ commanded_throttle = 0
  /\ commanded_steering = 0
  /\ applied_throttle = 0
  /\ applied_steering = 0
  /\ current_throttle = 0
  /\ current_steering = 0
  /\ last_pwm_update = BootMs
  /\ last_rc_poll = BootMs
  /\ last_failsafe_update = BootMs
  /\ last_telem_send = BootMs
  /\ last_wifi_cmd_ms = 0
  /\ failsafe_active = FALSE
  /\ last_active_source_time = BootMs
  /\ pwm_throttle = 0
  /\ pwm_steering = 0
  /\ fs_ret = "skip"
  /\ fs_prev = FALSE
  /\ last_supply = BootMs
  /\ pending = <<>>
  /\ expect = <<>>
  /\ sub = <<>>
  /\ raw = <<>>
  /\ events = 0
  /\ fn_in = <<>>
  /\ fn_out = <<>>
  /\ RcIdle
  /\ pwm_inited = TRUE
  /\ s_imu_enabled \in (IF target = "s3" THEN BOOLEAN ELSE {TRUE})
  /\ boot_in = <<[BootAllOk EXCEPT !.rc = s_rc_enabled, !.imu = s_imu_enabled]>>
  /\ init_ret = "ESP_OK"
  /\ imu_data = ImuZero
  /\ last_imu_read = BootMs
  /\ imu_ret = "none"
  /\ telem_seq = 0
  /\ telem = <<>>
  /\ frames = 0
  /\ esp_link = <<>>
  /\ wifi_acc = Never

\* every iteration of the loop takes LoopMs
Init == LoopStart /\ loop_ms = LoopMs

----------------------------------------------------------------------------
(* Command ingress *)

\* mutant: the arguments are stored as they come
VehicleControlOnWifiCommandNoClamp(throttle, steering) ==
  LET c == Cmd(throttle, steering)
  IN  /\ target = "s3"
      /\ init_ret = "ESP_OK"
      /\ events < MaxEvents
      /\ events' = events + 1
      /\ s_cmd_queue' = QueueOverwrite(s_cmd_queue, c)
      /\ raw' = <<throttle, steering>>
      /\ pending' = Append(pending, c)
      /\ sub' = IF rc_active THEN <<[c |-> c, t |-> now]>> ELSE <<>>
      /\ UNCHANGED <<target, pc, now, s_rc_enabled, uart_rx, cmd, rc_throttle,
                     rc_steering, rc_active, wifi_active, commanded_throttle,
                     commanded_steering, applied_throttle, applied_steering,
                     current_throttle, current_steering, last_pwm_update,
                     last_rc_poll, last_failsafe_update, last_telem_send,
                     last_wifi_cmd_ms, failsafe_active, last_active_source_time,
                     pwm_throttle, pwm_steering, fs_ret, fs_prev, last_supply,
                     expect, fn_in, fn_out, rcVars, paceVars, bootVars, imuVars,
                     telemVars>>

\* vehicle_control.cpp:242-252; the handler that calls it is registered after
\* VehicleControlInit has returned ESP_OK (esp32_s3/main/main.cpp:38-44)
VehicleControlOnWifiCommand(throttle, steering) ==
  LET c == Cmd(ClampNormalized(throttle), ClampNormalized(steering))
  IN  /\ target = "s3"
      /\ init_ret = "ESP_OK"
      /\ events < MaxEvents
      /\ events' = events + 1
      /\ s_cmd_queue' = QueueOverwrite(s_cmd_queue, c)
      /\ raw' = <<throttle, steering>>
      /\ pending' = Append(pending, c)
      /\ sub' = IF rc_active THEN <<[c |-> c, t |-> now]>> ELSE <<>>
      /\ UNCHANGED <<target, pc, now, s_rc_enabled, uart_rx, cmd, rc_throttle,
                     rc_steering, rc_active, wifi_active, commanded_throttle,
                     commanded_steering, applied_throttle, applied_steering,
                     current_throttle, current_steering, last_pwm_update,
                     last_rc_poll, last_failsafe_update, last_telem_send,
                     last_wifi_cmd_ms, failsafe_active, last_active_source_time,
                     pwm_throttle, pwm_steering, fs_ret, fs_prev, last_supply,
                     expect, fn_in, fn_out, rcVars, paceVars, bootVars, imuVars, telemVars>>

\* esp32/main/uart_bridge.cpp:62-68; the frame reaches the stm32 receive buffer
UartBridgeSendCommand(throttle, steering) ==
  LET c == Cmd(BridgeClamp(throttle), BridgeClamp(steering))
  IN  /\ target = "stm32"
      /\ pc # "boot"
      /\ events < MaxEvents
      /\ Len(uart_rx) < MaxUartFrames
      /\ events' = events + 1
      /\ uart_rx' = Append(uart_rx, c)
      /\ raw' = <<throttle, steering>>
      /\ UNCHANGED <<target, pc, now, s_rc_enabled, s_cmd_queue, cmd, rc_throttle,
                     rc_steering, rc_active, wifi_active, commanded_throttle,
                     commanded_steering, applied_throttle, applied_steering,
                     current_throttle, current_steering, last_pwm_update,
                     last_rc_poll, last_failsafe_update, last_telem_send,
                     last_wifi_cmd_ms, failsafe_active, last_active_source_time,
                     pwm_throttle, pwm_steering, fs_ret, fs_prev, last_supply,
                     pending, expect, sub, fn_in, fn_out, rcVars, paceVars, bootVars, imuVars, telemVars>>

----------------------------------------------------------------------------
(* vehicle_control_task (esp32_s3/main/vehicle_control.cpp:59-182) *)

\* vehicle_control.cpp:62-77.  The two reads are inputs; a reading with a pulse
\* that differs from the previous poll's is a new RC reading.
S3RcPoll ==
  /\ target = "s3" /\ pc = "rc"
  /\ pc' = "cmd"
  /\ telem' = <<>>
  /\ imu_ret' = "none"
  /\ IF s_rc_enabled /\ Sub32(now, last_rc_poll) >= RC_IN_POLL_INTERVAL_MS
     THEN \E r \in RcReadings :
            LET has == r[1] # <<>> /\ r[2] # <<>>
                chg == r # <<rc_throttle, rc_steering>> /\ r # << <<>>, <<>> >>
            IN  /\ chg => events < MaxEvents
                /\ events' = IF chg THEN events + 1 ELSE events
                /\ last_rc_poll' = now
                /\ rc_throttle' = r[1]
                /\ rc_steering' = r[2]
                /\ rc_active' = has
                /\ commanded_throttle' = IF has THEN r[1][1] ELSE commanded_throttle
                /\ commanded_steering' = IF has THEN r[2][1] ELSE commanded_steering
                /\ last_supply' = IF has THEN now ELSE last_supply
     ELSE /\ rc_active' = IF s_rc_enabled THEN rc_active ELSE FALSE
          /\ UNCHANGED <<events, last_rc_poll, rc_throttle, rc_steering,
                         commanded_throttle, commanded_steering, last_supply>>
  /\ UNCHANGED <<target, now, s_rc_enabled, s_cmd_queue, uart_rx, cmd,
                wifi_active, applied_throttle, applied_steering,
                current_throttle, current_steering, last_pwm_update,
                last_failsafe_update, last_telem_send, last_wifi_cmd_ms,
                failsafe_active, last_active_source_time, pwm_throttle,
                pwm_steering, fs_ret, fs_prev, pending, expect, sub, raw,
                fn_in, fn_out, rcVars, paceVars, bootVars, s_imu_enabled, imu_data,
                last_imu_read, telem_seq, frames, esp_link>>

\* mutant: the arbitration sets commanded to neutral when no network command
\* is within the timeout window
S3WifiCmdNeutralOnTimeout ==
  /\ target = "s3" /\ pc = "cmd"
  /\ pc' = "imu"
  /\ expect' = pending
  /\ pending' = <<>>
  /\ raw' = <<>>
  /\ IF s_cmd_queue # <<>>
     THEN /\ cmd' = <<Head(s_cmd_queue)>>
          /\ s_cmd_queue' = Tail(s_cmd_queue)
          /\ last_supply' = IF WifiCmdAccepted(rc_active) THEN now ELSE last_supply
          /\ last_wifi_cmd_ms' = IF WifiCmdAccepted(rc_active) THEN now
                                 ELSE last_wifi_cmd_ms
     ELSE /\ cmd' = <<>>
          /\ UNCHANGED <<s_cmd_queue, last_supply, last_wifi_cmd_ms>>
  /\ wifi_active' = WifiActive(rc_active, last_wifi_cmd_ms', now)
  /\ wifi_acc' = IF s_cmd_queue # <<>> /\ WifiCmdAccepted(rc_active)
                 THEN Elapsed ELSE wifi_acc
  /\ commanded_throttle' =
       IF s_cmd_queue # <<>> /\ WifiCmdAccepted(rc_active)
       THEN Head(s_cmd_queue).throttle
       ELSE IF rc_active \/ wifi_active' THEN commanded_throttle ELSE 0
  /\ commanded_steering' =
       IF s_cmd_queue # <<>> /\ WifiCmdAccepted(rc_active)
       THEN Head(s_cmd_queue).steering
       ELSE IF rc_active \/ wifi_active' THEN commanded_steering ELSE 0
  /\ UNCHANGED <<target, now, s_rc_enabled, uart_rx, rc_throttle, rc_steering,
                rc_active, applied_throttle, applied_steering,
                current_throttle, current_steering, last_pwm_update,
                last_rc_poll, last_failsafe_update, last_telem_send,
                failsafe_active, last_active_source_time, pwm_throttle,
                pwm_steering, fs_ret, fs_prev, sub, events, fn_in, fn_out, rcVars,
                loop_ms, bootVars, imuVars, telemVars>>

\* vehicle_control.cpp:79-92
S3WifiCmd ==
  /\ target = "s3" /\ pc = "cmd"
  /\ pc' = "imu"
  /\ expect' = pending
  /\ pending' = <<>>
  /\ raw' = <<>>
  /\ IF s_cmd_queue # <<>>
     THEN /\ cmd' = <<Head(s_cmd_queue)>>
          /\ s_cmd_queue' = Tail(s_cmd_queue)
          /\ last_supply' = IF WifiCmdAccepted(rc_active) THEN now ELSE last_supply
          /\ IF WifiCmdAccepted(rc_active)
             THEN /\ commanded_throttle' = Head(s_cmd_queue).throttle
                  /\ commanded_steering' = Head(s_cmd_queue).steering
                  /\ last_wifi_cmd_ms' = now
             ELSE UNCHANGED <<commanded_throttle, commanded_steering,
                              last_wifi_cmd_ms>>
     ELSE /\ cmd' = <<>>
          /\ UNCHANGED <<s_cmd_queue, last_supply, commanded_throttle,
                         commanded_steering, last_wifi_cmd_ms>>
  /\ wifi_active' = WifiActive(rc_active, last_wifi_cmd_ms', now)
  /\ wifi_acc' = IF s_cmd_queue # <<>> /\ WifiCmdAccepted(rc_active)
                 THEN Elapsed ELSE wifi_acc
  /\ UNCHANGED <<target, now, s_rc_enabled, uart_rx, rc_throttle, rc_steering,
                rc_active, applied_throttle, applied_steering,
                current_throttle, current_steering, last_pwm_update,
                last_rc_poll, last_failsafe_update, last_telem_send,
                failsafe_active, last_active_source_time, pwm_throttle,
                pwm_steering, fs_ret, fs_prev, sub, events, fn_in, fn_out, rcVars,
                loop_ms, bootVars, imuVars, telemVars>>

\* vehicle_control.cpp:94-98 with esp32_s3/main/imu.cpp and
\* common/mpu6050_spi.cpp:57-85.  The register values and the results of the
\* transfers are inputs; a failed read is an event of the run.
S3ImuRead ==
  /\ target = "s3" /\ pc = "imu"
  /\ pc' = "failsafe"
  /\ IF s_imu_enabled /\ Sub32(now, last_imu_read) >= IMU_READ_INTERVAL_MS
     THEN \E xfer \in ImuTransfers, regs \in ImuRaw :
            LET r == Mpu6050Read(TRUE, TRUE, xfer, regs, imu_data)
            IN  /\ r[1] # 0 => events < MaxEvents
                /\ events' = IF r[1] # 0 THEN events + 1 ELSE events
                /\ last_imu_read' = now
                /\ imu_data' = r[2]
                /\ imu_ret' = IF r[1] = 0 THEN "ok" ELSE "fail"
     ELSE UNCHANGED <<events, last_imu_read, imu_data, imu_ret>>
  /\ UNCHANGED <<target, now, s_rc_enabled, s_cmd_queue, uart_rx, cmd,
                rc_throttle, rc_steering, rc_active, wifi_active,
                commanded_throttle, commanded_steering, applied_throttle,
                applied_steering, current_throttle, current_steering,
                last_pwm_update, last_rc_poll, last_failsafe_update,
                last_telem_send, last_wifi_cmd_ms, failsafe_active,
                last_active_source_time, pwm_throttle, pwm_steering, fs_ret,
                fs_prev, last_supply, pending, expect, sub, raw, fn_in, fn_out,
                rcVars, paceVars, bootVars, s_imu_enabled, telemVars>>

\* vehicle_control.cpp:100-111 with esp32_s3/main/failsafe.cpp:11-14
S3Failsafe ==
  /\ target = "s3" /\ pc = "failsafe"
  /\ pc' = "pwm"
  /\ IF Sub32(now, last_failsafe_update) >= FAILSAFE_UPDATE_INTERVAL_MS
     THEN LET r == FailsafeCoreUpdate(now, rc_active, wifi_active,
                                      failsafe_active, last_active_source_time)
          IN  /\ last_failsafe_update' = now
              /\ failsafe_active' = r[1]
              /\ last_active_source_time' = r[2]
              /\ fs_prev' = failsafe_active
              /\ fs_ret' = IF r[1] THEN "true" ELSE "false"
              /\ IF r[1]
                 THEN /\ commanded_throttle' = 0
                      /\ commanded_steering' = 0
                      /\ applied_throttle' = 0
                      /\ applied_steering' = 0
                      /\ pwm_throttle' = IF pwm_inited THEN 0 ELSE pwm_throttle
                      /\ pwm_steering' = IF pwm_inited THEN 0 ELSE pwm_steering
                 ELSE UNCHANGED <<commanded_throttle, commanded_steering,
                                  applied_throttle, applied_steering,
                                  pwm_throttle, pwm_steering>>
     ELSE /\ fs_ret' = "skip"
          /\ UNCHANGED <<last_failsafe_update, failsafe_active,
                         last_active_source_time, fs_prev, commanded_throttle,
                         commanded_steering, applied_throttle, applied_steering,
                         pwm_throttle, pwm_steering>>
  /\ UNCHANGED <<target, now, s_rc_enabled, s_cmd_queue, uart_rx, cmd,
                rc_throttle, rc_steering, rc_active, wifi_active,
                current_throttle, current_steering, last_pwm_update,
                last_rc_poll, last_telem_send, last_wifi_cmd_ms, last_supply,
                pending, expect, sub, raw, events, fn_in, fn_out, rcVars, paceVars, bootVars, imuVars, telemVars>>

\* vehicle_control.cpp:113-125
S3PwmUpdate ==
  /\ target = "s3" /\ pc = "pwm"
  /\ pc' = "telem"
  /\ IF Sub32(now, last_pwm_update) >= PWM_UPDATE_INTERVAL_MS
     THEN LET dt_ms == Sub32(now, last_pwm_update)
              at == SlewRateCommon(commanded_throttle, applied_throttle,
                                   SLEW_RATE_THROTTLE_MAX_PER_SEC, dt_ms)
              as == SlewRateCommon(commanded_steering, applied_steering,
                                   SLEW_RATE_STEERING_MAX_PER_SEC, dt_ms)
          IN  /\ last_pwm_update' = now
              /\ applied_throttle' = at
              /\ applied_steering' = as
              /\ pwm_throttle' = IF pwm_inited THEN at ELSE pwm_throttle
              /\ pwm_steering' = IF pwm_inited THEN as ELSE pwm_steering
     ELSE UNCHANGED <<last_pwm_update, applied_throttle, applied_steering,
                      pwm_throttle, pwm_steering>>
  /\ UNCHANGED <<target, now, s_rc_enabled, s_cmd_queue, uart_rx, cmd,
                rc_throttle, rc_steering, rc_active, wifi_active,
                commanded_throttle, commanded_steering, current_throttle,
                current_steering, last_rc_poll, last_failsafe_update,
                last_telem_send, last_wifi_cmd_ms, failsafe_active,
                last_active_source_time, fs_ret, fs_prev, last_supply,
                pending, expect, sub, raw, events, fn_in, fn_out, rcVars, paceVars, bootVars, imuVars, telemVars>>

\* vehicle_control.cpp:127-181: telemetry (the number of WebSocket clients is
\* an input), then vTaskDelay and the next iteration's clock read (line 60)
S3Telem ==
  /\ target = "s3" /\ pc = "telem"
  /\ Elapsed + loop_ms <= MaxTime
  /\ pc' = "rc"
  /\ last_telem_send' = IF Sub32(now, last_telem_send) >= TELEM_SEND_INTERVAL_MS
                        THEN now ELSE last_telem_send
  /\ now' = Add32(now, loop_ms)
  /\ cmd' = <<>>
  /\ expect' = <<>>
  /\ fs_ret' = "skip"
  /\ fs_prev' = FALSE
  /\ sub' = IF rc_active THEN sub ELSE <<>>
  /\ IF Sub32(now, last_telem_send) >= TELEM_SEND_INTERVAL_MS
     THEN \E clients \in 0..1 :
            telem' = IF clients = 0 THEN <<>>
                     ELSE <<S3TelemJson(rc_active, wifi_active, failsafe_active,
                                        s_imu_enabled, imu_data,
                                        applied_throttle, applied_steering)>>
     ELSE telem' = <<>>
  /\ UNCHANGED <<target, s_rc_enabled, s_cmd_queue, uart_rx, rc_throttle,
                rc_steering, rc_active, wifi_active, commanded_throttle,
                commanded_steering, applied_throttle, applied_steering,
                current_throttle, current_steering, last_pwm_update,
                last_rc_poll, last_failsafe_update, last_wifi_cmd_ms,
                failsafe_active, last_active_source_time, pwm_throttle,
                pwm_steering, last_supply, pending, raw, events, fn_in,
                fn_out, rcVars, paceVars, bootVars, imuVars, telem_seq, frames, esp_link>>

----------------------------------------------------------------------------
(* main loop (stm32/main/main.cpp:75-146).  The RC reads and the UART receive *)
(* are inputs of the loop.                                                    *)

\* main.cpp:78-89
StmPwmUpdate ==
  /\ target = "stm32" /\ pc = "pwm"
  /\ pc' = "rc"
  /\ telem' = <<>>
  /\ esp_link' = <<>>
  /\ imu_ret' = "none"
  /\ IF Sub32(now, last_pwm_update) >= PWM_UPDATE_INTERVAL_MS
     THEN LET dt == Sub32(now, last_pwm_update)
              tt == ApplySlewRate(current_throttle, current_throttle,
                                  SLEW_RATE_THROTTLE_MAX_PER_SEC, dt)
              ts == ApplySlewRate(current_steering, current_steering,
                                  SLEW_RATE_STEERING_MAX_PER_SEC, dt)
          IN  /\ last_pwm_update' = now
              /\ current_throttle' = tt
              /\ current_steering' = ts
              /\ pwm_throttle' = IF pwm_inited THEN tt ELSE pwm_throttle
              /\ pwm_steering' = IF pwm_inited THEN ts ELSE pwm_steering
     ELSE UNCHANGED <<last_pwm_update, current_throttle, current_steering,
                      pwm_throttle, pwm_steering>>
  /\ UNCHANGED <<target, now, s_rc_enabled, s_cmd_queue, uart_rx, cmd,
                rc_throttle, rc_steering, rc_active, wifi_active,
                commanded_throttle, commanded_steering, applied_throttle,
                applied_steering, last_rc_poll, last_failsafe_update,
                last_telem_send, last_wifi_cmd_ms, failsafe_active,
                last_active_source_time, fs_ret, fs_prev, last_supply,
                pending, expect, sub, raw, events, fn_in, fn_out, rcVars, paceVars,
                bootVars, s_imu_enabled, imu_data, last_imu_read, telem_seq,
                frames>>

\* main.cpp:91-100
StmRcPoll ==
  /\ target = "stm32" /\ pc = "rc"
  /\ pc' = "cmd"
  /\ IF Sub32(now, last_rc_poll) >= RC_IN_POLL_INTERVAL_MS
     THEN \E r \in RcReadings :
            LET has == r[1] # <<>> /\ r[2] # <<>>
                chg == r # <<rc_throttle, rc_steering>> /\ r # << <<>>, <<>> >>
            IN  /\ chg => events < MaxEvents
                /\ events' = IF chg THEN events + 1 ELSE events
                /\ last_rc_poll' = now
                /\ rc_throttle' = r[1]
                /\ rc_steering' = r[2]
                /\ rc_active' = has
                /\ current_throttle' = IF has THEN r[1][1] ELSE current_throttle
                /\ current_steering' = IF has THEN r[2][1] ELSE current_steering
                /\ wifi_active' = IF has THEN FALSE ELSE wifi_active
                /\ last_supply' = IF has THEN now ELSE last_supply
     ELSE UNCHANGED <<events, last_rc_poll, rc_throttle, rc_steering, rc_active,
                      current_throttle, current_steering, wifi_active,
                      last_supply>>
  /\ UNCHANGED <<target, now, s_rc_enabled, s_cmd_queue, uart_rx, cmd,
                commanded_throttle, commanded_steering, applied_throttle,
                applied_steering, last_pwm_update, last_failsafe_update,
                last_telem_send, last_wifi_cmd_ms, failsafe_active,
                last_active_source_time, pwm_throttle, pwm_steering, fs_ret,
                fs_prev, pending, expect, sub, raw, fn_in, fn_out, rcVars, paceVars, bootVars, imuVars, telemVars>>

\* main.cpp:102-113 with stm32/main/uart_bridge.cpp:41-49
StmUartCmd ==
  /\ target = "stm32" /\ pc = "cmd"
  /\ pc' = "imu"
  /\ raw' = <<>>
  /\ IF uart_rx # <<>>
     THEN /\ cmd' = <<Head(uart_rx)>>
          /\ uart_rx' = Tail(uart_rx)
          /\ last_supply' = IF UartCmdAccepted(rc_active) THEN now ELSE last_supply
          /\ wifi_active' = UartCmdAccepted(rc_active)
          /\ IF UartCmdAccepted(rc_active)
             THEN /\ current_throttle' = Head(uart_rx).throttle
                  /\ current_steering' = Head(uart_rx).steering
             ELSE UNCHANGED <<current_throttle, current_steering>>
     ELSE /\ cmd' = <<>>
          /\ wifi_active' = FALSE
          /\ UNCHANGED <<uart_rx, last_supply, current_throttle,
                         current_steering>>
  /\ UNCHANGED <<target, now, s_rc_enabled, s_cmd_queue, rc_throttle,
                rc_steering, rc_active, commanded_throttle,
                commanded_steering, applied_throttle, applied_steering,
                last_pwm_update, last_rc_poll, last_failsafe_update,
                last_telem_send, last_wifi_cmd_ms, failsafe_active,
                last_active_source_time, pwm_throttle, pwm_steering, fs_ret,
                fs_prev, pending, expect, sub, events, fn_in, fn_out, rcVars, paceVars, bootVars, imuVars, telemVars>>

\* main.cpp:115-118 with stm32/main/imu.cpp
StmImuRead ==
  /\ target = "stm32" /\ pc = "imu"
  /\ pc' = "failsafe"
  /\ IF Sub32(now, last_imu_read) >= IMU_READ_INTERVAL_MS
     THEN LET r == StmImuReadStub(s_imu_enabled, imu_data)
          IN  /\ last_imu_read' = now
              /\ imu_data' = r[2]
              /\ imu_ret' = IF r[1] = 0 THEN "ok" ELSE "fail"
     ELSE UNCHANGED <<last_imu_read, imu_data, imu_ret>>
  /\ UNCHANGED <<target, now, s_rc_enabled, s_cmd_queue, uart_rx, cmd,
                rc_throttle, rc_steering, rc_active, wifi_active,
                commanded_throttle, commanded_steering, applied_throttle,
                applied_steering, current_throttle, current_steering,
                last_pwm_update, last_rc_poll, last_failsafe_update,
                last_telem_send, last_wifi_cmd_ms, failsafe_active,
                last_active_source_time, pwm_throttle, pwm_steering, fs_ret,
                fs_prev, last_supply, pending, expect, sub, raw, events, fn_in,
                fn_out, rcVars, paceVars, bootVars, s_imu_enabled, telemVars>>

\* main.cpp:120-127 with stm32/main/failsafe.cpp:13-24
StmFailsafe ==
  /\ target = "stm32" /\ pc = "failsafe"
  /\ pc' = "telem"
  /\ IF Sub32(now, last_failsafe_update) >= FAILSAFE_UPDATE_INTERVAL_MS
     THEN LET r == FailsafeUpdate(now, rc_active, wifi_active, failsafe_active,
                                  last_active_source_time)
          IN  /\ last_failsafe_update' = now
              /\ failsafe_active' = r[1]
              /\ last_active_source_time' = r[2]
              /\ fs_prev' = failsafe_active
              /\ fs_ret' = IF r[1] THEN "true" ELSE "false"
              /\ IF r[1]
                 THEN /\ current_throttle' = 0
                      /\ current_steering' = 0
                      /\ pwm_throttle' = IF pwm_inited THEN 0 ELSE pwm_throttle
                      /\ pwm_steering' = IF pwm_inited THEN 0 ELSE pwm_steering
                 ELSE UNCHANGED <<current_throttle, current_steering,
                                  pwm_throttle, pwm_steering>>
     ELSE /\ fs_ret' = "skip"
          /\ UNCHANGED <<last_failsafe_update, failsafe_active,
                         last_active_source_time, fs_prev, current_throttle,
                         current_steering, pwm_throttle, pwm_steering>>
  /\ UNCHANGED <<target, now, s_rc_enabled, s_cmd_queue, uart_rx, cmd,
                rc_throttle, rc_steering, rc_active, wifi_active,
                commanded_throttle, commanded_steering, applied_throttle,
                applied_steering, last_pwm_update, last_rc_poll,
                last_telem_send, last_wifi_cmd_ms, last_supply, pending,
                expect, sub, raw, events, fn_in, fn_out, rcVars, paceVars, bootVars, imuVars, telemVars>>

\* main.cpp:129-145: telemetry, then platform_delay_ms and the next
\* iteration's clock read (line 76)
StmTelem ==
  /\ target = "stm32" /\ pc = "telem"
  /\ Elapsed + loop_ms <= MaxTime
  /\ pc' = "pwm"
  /\ last_telem_send' = IF Sub32(now, last_telem_send) >= TELEM_SEND_INTERVAL_MS
                        THEN now ELSE last_telem_send
  /\ now' = Add32(now, loop_ms)
  /\ cmd' = <<>>
  /\ fs_ret' = "skip"
  /\ fs_prev' = FALSE
  /\ IF Sub32(now, last_telem_send) >= TELEM_SEND_INTERVAL_MS
     THEN /\ telem' = <<StmTelemFrame(telem_seq, rc_active, wifi_active,
                                      failsafe_active, imu_data)>>
          /\ telem_seq' = NextSeq(telem_seq)
          /\ frames' = frames + 1
     ELSE /\ telem' = <<>>
          /\ UNCHANGED <<telem_seq, frames>>
  /\ UNCHANGED <<target, s_rc_enabled, s_cmd_queue, uart_rx, rc_throttle,
                rc_steering, rc_active, wifi_active, commanded_throttle,
                commanded_steering, applied_throttle, applied_steering,
                current_throttle, current_steering, last_pwm_update,
                last_rc_poll, last_failsafe_update, last_wifi_cmd_ms,
                failsafe_active, last_active_source_time, pwm_throttle,
                pwm_steering, last_supply, pending, expect, sub, raw, events,
                fn_in, fn_out, rcVars, paceVars, bootVars, imuVars, esp_link>>

\* esp32/main/main.cpp:54-69: the frame sent in the iteration that has just
\* ended is received and the "link" object is built from it
UartBridgeTaskTelem ==
  /\ target = "stm32" /\ pc = "pwm"
  /\ telem # <<>> /\ esp_link = <<>>
  /\ esp_link' = <<EspLink(telem[1])>>
  /\ UNCHANGED <<loopVars, fnVars, rcVars, paceVars, bootVars, imuVars, telem_seq,
                 telem, frames>>

----------------------------------------------------------------------------

Next ==
  \/ \E c \in WifiInputs : VehicleControlOnWifiCommand(c[1], c[2])
  \/ \E c \in WifiInputs : UartBridgeSendCommand(c[1], c[2])
  \/ S3RcPoll
  \/ S3WifiCmd
  \/ S3ImuRead
  \/ S3Failsafe
  \/ S3PwmUpdate
  \/ S3Telem
  \/ StmPwmUpdate
  \/ StmRcPoll
  \/ StmUartCmd
  \/ StmImuRead
  \/ StmFailsafe
  \/ StmTelem
  \/ UartBridgeTaskTelem

Spec == Init /\ [][Next]_vars

\* the same loop with an iteration one millisecond shorter, or of LoopMs
LoopPeriods == {LoopMs - 1, LoopMs}

InitPeriod == LoopStart /\ loop_ms \in LoopPeriods

SpecPeriod == InitPeriod /\ [][Next]_vars

----------------------------------------------------------------------------
(* Start-up: VehicleControlInit (esp32_s3) and the init calls of main        *)
(* (stm32), then the loop.  The result each init call returns is an input.   *)

InitBoot ==
  /\ target \in {"s3", "stm32"}
  /\ pc = "boot"
  /\ now = BootMs
  /\ s_rc_enabled = FALSE
  /\ s_cmd_queue = <<>>
  /\ uart_rx = <<>>
  /\ cmd = <<>>
  /\ rc_throttle = <<>>
  /\ rc_steering = <<>>
  /\ rc_active = FALSE
  /\ wifi_active = FALSE
  /\ commanded_throttle = 0
  /\ commanded_steering = 0
  /\ applied_throttle = 0
  /\ applied_steering = 0
  /\ current_throttle = 0
  /\ current_steering = 0
  /\ last_pwm_update = BootMs
  /\ last_rc_poll = BootMs
  /\ last_failsafe_update = BootMs
  /\ last_telem_send = BootMs
  /\ last_wifi_cmd_ms = 0
  /\ failsafe_active = FALSE
  /\ last_active_source_time = BootMs
  /\ pwm_throttle = 0
  /\ pwm_steering = 0
  /\ fs_ret = "skip"
  /\ fs_prev = FALSE
  /\ last_supply = BootMs
  /\ pending = <<>>
  /\ expect = <<>>
  /\ sub = <<>>
  /\ raw = <<>>
  /\ events = 0
  /\ fn_in = <<>>
  /\ fn_out = <<>>
  /\ RcIdle
  /\ pwm_inited = FALSE
  /\ s_imu_enabled = FALSE
  /\ boot_in = <<>>
  /\ init_ret = "none"
  /\ imu_data = ImuZero
  /\ last_imu_read = BootMs
  /\ imu_ret = "none"
  /\ telem_seq = 0
  /\ telem = <<>>
  /\ frames = 0
  /\ esp_link = <<>>
  /\ loop_ms = LoopMs
  /\ wifi_acc = Never

\* what PwmControlInit, RcInputInit, ImuInit, xQueueCreate and xTaskCreate
\* return (TRUE: success) if they are called
BootResults == [pwm : BOOLEAN, rc : BOOLEAN, imu : BOOLEAN, queue : BOOLEAN,
                task : BOOLEAN]

\* esp32_s3/main/vehicle_control.cpp:185-240; on ESP_FAIL app_main returns
\* (esp32_s3/main/main.cpp:38-41) and nothing of the control loop runs
VehicleControlInit ==
  /\ target = "s3" /\ pc = "boot"
  /\ \E r \in BootResults :
       /\ boot_in' = <<r>>
       /\ IF ~r.pwm
          THEN /\ init_ret' = "ESP_FAIL"
               /\ pc' = "halt"
               /\ UNCHANGED <<pwm_inited, s_rc_enabled, s_imu_enabled,
                              failsafe_active, last_active_source_time>>
          ELSE /\ pwm_inited' = TRUE
               /\ s_rc_enabled' = r.rc
               /\ s_imu_enabled' = r.imu
               /\ failsafe_active' = FALSE
               /\ last_active_source_time' = now
               /\ IF r.queue /\ r.task
                  THEN init_ret' = "ESP_OK" /\ pc' = "rc"
                  ELSE init_ret' = "ESP_FAIL" /\ pc' = "halt"
  /\ UNCHANGED <<target, now, s_cmd_queue, uart_rx, cmd, rc_throttle,
                rc_steering, rc_active, wifi_active, commanded_throttle,
                commanded_steering, applied_throttle, applied_steering,
                current_throttle, current_steering, last_pwm_update,
                last_rc_poll, last_failsafe_update, last_telem_send,
                last_wifi_cmd_ms, pwm_throttle, pwm_steering, fs_ret, fs_prev,
                last_supply, pending, expect, sub, raw, events, fn_in, fn_out,
                rcVars, paceVars, imu_data, last_imu_read, imu_ret, telemVars>>

\* stm32/main/main.cpp:55-76: the results of the init calls are not looked at.
\* PwmControlInit leaves its driver uninitialised when it fails; the RcInputInit
\* and ImuInit of stm32/main succeed.
StmMainInit ==
  /\ target = "stm32" /\ pc = "boot"
  /\ \E pwm_ok \in BOOLEAN :
       /\ boot_in' = <<[BootAllOk EXCEPT !.pwm = pwm_ok]>>
       /\ pwm_inited' = pwm_ok
  /\ s_rc_enabled' = TRUE
  /\ s_imu_enabled' = TRUE
  /\ failsafe_active' = FALSE
  /\ last_active_source_time' = now
  /\ pc' = "pwm"
  /\ UNCHANGED <<target, now, s_cmd_queue, uart_rx, cmd, rc_throttle,
                rc_steering, rc_active, wifi_active, commanded_throttle,
                commanded_steering, applied_throttle, applied_steering,
                current_throttle, current_steering, last_pwm_update,
                last_rc_poll, last_failsafe_update, last_telem_send,
                last_wifi_cmd_ms, pwm_throttle, pwm_steering, fs_ret, fs_prev,
                last_supply, pending, expect, sub, raw, events, fn_in, fn_out,
                rcVars, paceVars, init_ret, imu_data, last_imu_read, imu_ret, telemVars>>

NextBoot ==
  \/ VehicleControlInit
  \/ StmMainInit
  \/ Next

SpecBoot == InitBoot /\ [][NextBoot]_vars

----------------------------------------------------------------------------
(* Checks of pure functions: Init draws the arguments, one step applies the  *)
(* function.  The control loop does not run (target "fn").                   *)

MaxDt == 40          \* largest dt_ms handed to ApplySlewRate

SlewValues == { -ONE, -(ONE \div 2), -30, -7, 0, 7, 30, ONE \div 2, ONE }
SlewRates == { SLEW_RATE_THROTTLE_MAX_PER_SEC, SLEW_RATE_STEERING_MAX_PER_SEC }

LoopIdle ==
  /\ target \in {"fn", "rc", "pong", "scan", "codec", "bridge", "wifi", "start", "imu16",
                 "delay"}
  /\ pc = "fn"
  /\ now = BootMs
  /\ s_rc_enabled = FALSE
  /\ s_cmd_queue = <<>>
  /\ uart_rx = <<>>
  /\ cmd = <<>>
  /\ rc_throttle = <<>>
  /\ rc_steering = <<>>
  /\ rc_active = FALSE
  /\ wifi_active = FALSE
  /\ commanded_throttle = 0
  /\ commanded_steering = 0
  /\ applied_throttle = 0
  /\ applied_steering = 0
  /\ current_throttle = 0
  /\ current_steering = 0
  /\ last_pwm_update = BootMs
  /\ last_rc_poll = BootMs
  /\ last_failsafe_update = BootMs
  /\ last_telem_send = BootMs
  /\ last_wifi_cmd_ms = 0
  /\ failsafe_active = FALSE
  /\ last_active_source_time = BootMs
  /\ pwm_throttle = 0
  /\ pwm_steering = 0
  /\ fs_ret = "skip"
  /\ fs_prev = FALSE
  /\ last_supply = BootMs
  /\ pending = <<>>
  /\ expect = <<>>
  /\ sub = <<>>
  /\ raw = <<>>
  /\ events = 0
  /\ RcIdle
  /\ pwm_inited = FALSE
  /\ s_imu_enabled = FALSE
  /\ boot_in = <<>>
  /\ init_ret = "none"
  /\ imu_data = ImuZero
  /\ last_imu_read = BootMs
  /\ imu_ret = "none"
  /\ telem_seq = 0
  /\ telem = <<>>
  /\ frames = 0
  /\ esp_link = <<>>
  /\ loop_ms = LoopMs
  /\ wifi_acc = Never

InitSlew ==
  /\ LoopIdle
  /\ target = "fn"
  /\ fn_in \in SlewValues \X SlewValues \X SlewRates \X (0..MaxDt)
  /\ fn_out = <<>>

\* one call of ApplySlewRate (stm32/main/main.cpp:31-40)
SlewCall ==
  /\ fn_out = <<>>
  /\ fn_out' = <<ApplySlewRate(fn_in[1], fn_in[2], fn_in[3], fn_in[4])>>
  /\ UNCHANGED <<fn_in, loopVars, rcVars, paceVars, bootVars, imuVars, telemVars>>

NextSlew == SlewCall

SpecSlew == InitSlew /\ [][NextSlew]_vars

----------------------------------------------------------------------------
(* RC pulse capture (esp32_s3/main/rc_input.cpp).  The edge ISR and a task-  *)
(* side read run concurrently; each statement that touches the shared state  *)
(* is one step.  Time passes between ISR runs in steps drawn from TickSet.   *)

\* time steps: a glitch, a neutral pulse, half the signal-loss timeout, and a
\* pause longer than the counter's period
TickSet == {500, 1500, 125000, 1100000}

PulseTime(p) == IF p = RC_IN_THROTTLE_PIN THEN s_last_throttle_pulse_time_us
                ELSE s_last_steering_pulse_time_us
PulseWidth(p) == IF p = RC_IN_THROTTLE_PIN THEN s_last_throttle_pulse_width_us
                 ELSE s_last_steering_pulse_width_us
LastRise(p) == IF p = RC_IN_THROTTLE_PIN THEN s_last_rise_throttle_us
               ELSE s_last_rise_steering_us

\* history: a pulse of this real width is a valid one
InPulseRange(w) == w >= RC_IN_PULSE_MIN_US /\ w <= RC_IN_PULSE_MAX_US

\* mutant: the width is not compared with RC_IN_PULSE_MIN_US
WidthInRangeNoMin(width_us) == width_us <= RC_IN_PULSE_MAX_US

\* mutant: the width is not compared with RC_IN_PULSE_MAX_US
WidthInRangeNoMax(width_us) == width_us >= RC_IN_PULSE_MIN_US

\* rc_input.cpp:43, 51
WidthInRange(width_us) ==
  width_us >= RC_IN_PULSE_MIN_US /\ width_us <= RC_IN_PULSE_MAX_US

\* rc_vehicle::NormalizedFromPulseWidthUs (rc_vehicle_common.hpp; spec 4.1):
\* [min, neutral] -> [-1, 0], [neutral, max] -> [0, 1], clamped
NormalizedFromPulseWidthUs(width_us, min_us, neutral_us, max_us) ==
  IF width_us <= min_us THEN -ONE
  ELSE IF width_us >= max_us THEN ONE
  ELSE IF width_us < neutral_us
       THEN -(((neutral_us - width_us) * ONE) \div (neutral_us - min_us))
       ELSE ((width_us - neutral_us) * ONE) \div (max_us - neutral_us)

\* rc_input.cpp:106-117; now_us is the clock read of line 110, <<>> is nullopt
ReadChannel(last_time_us, last_width_us, now_us) ==
  IF last_time_us = 0 THEN <<>>
  ELSE LET dt_ms == SubUs(now_us, last_time_us) \div 1000
       IN  IF dt_ms >= RC_IN_TIMEOUT_MS THEN <<>>
           ELSE <<NormalizedFromPulseWidthUs(last_width_us, RC_IN_PULSE_MIN_US,
                                             RC_IN_PULSE_NEUTRAL_US,
                                             RC_IN_PULSE_MAX_US)>>

\* mutant: only the throttle channel is looked at
RcInputIsActiveThrottleOnly(thr_us, str_us, now_us) ==
  LET dt_thr == SubUs(now_us, thr_us) \div 1000
  IN  thr_us # 0 /\ dt_thr < RC_IN_TIMEOUT_MS

\* rc_input.cpp:139-153; thr_us and str_us are the two time stamps copied
\* under s_rc_mux, now_us the clock read of line 147
RcInputIsActive(thr_us, str_us, now_us) ==
  LET dt_thr == SubUs(now_us, thr_us) \div 1000
      dt_str == SubUs(now_us, str_us) \div 1000
  IN  thr_us # 0 /\ str_us # 0 /\ dt_thr < RC_IN_TIMEOUT_MS
      /\ dt_str < RC_IN_TIMEOUT_MS

\* time passes while no ISR runs and nobody is inside the critical section
Tick(d) ==
  /\ target = "rc"
  /\ isr.pc = "idle" /\ s_rc_mux = "free"
  /\ ticks < MaxTicks
  /\ ticks' = ticks + 1
  /\ timer_us' = (timer_us + d) % UsMod
  /\ real_us' = real_us + d
  /\ UNCHANGED <<restVars, s_last_throttle_pulse_time_us,
                s_last_steering_pulse_time_us, s_last_throttle_pulse_width_us,
                s_last_steering_pulse_width_us, s_last_rise_throttle_us,
                s_last_rise_steering_us, s_rc_mux, pin, isr, rd, phys_rise,
                good, stamp_t, stamp_w, edges>>

\* an edge on pin p starts gpio_isr_handler: rc_input.cpp:25-28
GpioEdge(p) ==
  /\ target = "rc"
  /\ isr.pc = "idle"
  /\ edges < MaxEdges
  /\ edges' = edges + 1
  /\ pin' = [pin EXCEPT ![p] = 1 - pin[p]]
  /\ isr' = [pc |-> "enter", gpio_num |-> p, level |-> 1 - pin[p],
             now_us |-> timer_us,
             pre |-> [time |-> [q \in Pins |-> PulseTime(q)],
                      width |-> [q \in Pins |-> PulseWidth(q)],
                      rise |-> [q \in Pins |-> LastRise(q)]],
             ok |-> /\ pin[p] = 1
                    /\ phys_rise[p] # Never
                    /\ InPulseRange(real_us - phys_rise[p])]
  /\ phys_rise' = [phys_rise EXCEPT ![p] = IF pin[p] = 0 THEN real_us ELSE Never]
  /\ UNCHANGED <<restVars, s_last_throttle_pulse_time_us,
                s_last_steering_pulse_time_us, s_last_throttle_pulse_width_us,
                s_last_steering_pulse_width_us, s_last_rise_throttle_us,
                s_last_rise_steering_us, s_rc_mux, timer_us, rd, real_us, good,
                stamp_t, stamp_w, ticks>>

\* rc_input.cpp:30
IsrEnterCritical ==
  /\ isr.pc = "enter"
  /\ s_rc_mux = "free"
  /\ s_rc_mux' = "isr"
  /\ isr' = [isr EXCEPT !.pc = "body"]
  /\ UNCHANGED <<restVars, s_last_throttle_pulse_time_us,
                s_last_steering_pulse_time_us, s_last_throttle_pulse_width_us,
                s_last_steering_pulse_width_us, s_last_rise_throttle_us,
                s_last_rise_steering_us, timer_us, pin, rd, real_us, phys_rise,
                good, stamp_t, stamp_w, ticks, edges>>

\* rc_input.cpp:31-44 (throttle), 31-37 and 48-52 (steering): the rising edge
\* is recorded; on a falling edge the width is computed and, if in range, stored
IsrEdgeBody ==
  /\ isr.pc = "body"
  /\ LET p == isr.gpio_num
         width_us == SubUs(isr.now_us, LastRise(p))
         fall == isr.level = 0 /\ LastRise(p) # 0
         store == fall /\ WidthInRange(width_us)
     IN  /\ s_last_rise_throttle_us' =
              IF isr.level = 1 /\ p = RC_IN_THROTTLE_PIN THEN isr.now_us
              ELSE s_last_rise_throttle_us
         /\ s_last_rise_steering_us' =
              IF isr.level = 1 /\ p = RC_IN_STEERING_PIN THEN isr.now_us
              ELSE s_last_rise_steering_us
         /\ s_last_throttle_pulse_width_us' =
              IF store /\ p = RC_IN_THROTTLE_PIN THEN width_us
              ELSE s_last_throttle_pulse_width_us
         /\ s_last_steering_pulse_width_us' =
              IF store /\ p = RC_IN_STEERING_PIN THEN width_us
              ELSE s_last_steering_pulse_width_us
         /\ stamp_w' = IF store THEN [stamp_w EXCEPT ![p] = real_us] ELSE stamp_w
         /\ isr' = [isr EXCEPT !.pc = IF store THEN "time"
                                      ELSE IF fall THEN "clear" ELSE "exit"]
  /\ UNCHANGED <<restVars, s_last_throttle_pulse_time_us,
                s_last_steering_pulse_time_us, s_rc_mux, timer_us, pin, rd,
                real_us, phys_rise, good, stamp_t, ticks, edges>>

\* rc_input.cpp:45, 53
IsrStoreTime ==
  /\ isr.pc = "time"
  /\ s_last_throttle_pulse_time_us' =
       IF isr.gpio_num = RC_IN_THROTTLE_PIN THEN isr.now_us
       ELSE s_last_throttle_pulse_time_us
  /\ s_last_steering_pulse_time_us' =
       IF isr.gpio_num = RC_IN_STEERING_PIN THEN isr.now_us
       ELSE s_last_steering_pulse_time_us
  /\ stamp_t' = [stamp_t EXCEPT ![isr.gpio_num] = real_us]
  /\ isr' = [isr EXCEPT !.pc = "clear"]
  /\ UNCHANGED <<restVars, s_last_throttle_pulse_width_us,
                s_last_steering_pulse_width_us, s_last_rise_throttle_us,
                s_last_rise_steering_us, s_rc_mux, timer_us, pin, rd, real_us,
                phys_rise, good, stamp_w, ticks, edges>>

\* rc_input.cpp:47, 55
IsrClearRise ==
  /\ isr.pc = "clear"
  /\ s_last_rise_throttle_us' =
       IF isr.gpio_num = RC_IN_THROTTLE_PIN THEN 0 ELSE s_last_rise_throttle_us
  /\ s_last_rise_steering_us' =
       IF isr.gpio_num = RC_IN_STEERING_PIN THEN 0 ELSE s_last_rise_steering_us
  /\ isr' = [isr EXCEPT !.pc = "exit"]
  /\ UNCHANGED <<restVars, s_last_throttle_pulse_time_us,
                s_last_steering_pulse_time_us, s_last_throttle_pulse_width_us,
                s_last_steering_pulse_width_us, s_rc_mux, timer_us, pin, rd,
                real_us, phys_rise, good, stamp_t, stamp_w, ticks, edges>>

\* rc_input.cpp:58-59
IsrExitCritical ==
  /\ isr.pc = "exit"
  /\ s_rc_mux' = "free"
  /\ good' = IF isr.ok THEN [good EXCEPT ![isr.gpio_num] = real_us] ELSE good
  /\ isr' = [pc |-> "idle"]
  /\ UNCHANGED <<restVars, s_last_throttle_pulse_time_us,
                s_last_steering_pulse_time_us, s_last_throttle_pulse_width_us,
                s_last_steering_pulse_width_us, s_last_rise_throttle_us,
                s_last_rise_steering_us, timer_us, pin, rd, real_us, phys_rise,
                stamp_t, stamp_w, ticks, edges>>

\* RcInputReadThrottle / RcInputReadSteering are called: rc_input.cpp:119-121,
\* 129-131
RcInputReadStart(p) ==
  /\ target = "rc"
  /\ rd.pc \in {"idle", "done"}
  /\ rd' = [pc |-> "enter", ch |-> p, t_us |-> 0, w_us |-> 0, gt |-> Never,
            gw |-> Never, g |-> Never, at |-> 0, out |-> <<>>,
            conc |-> (isr.pc = "time" /\ isr.gpio_num = p)]
  /\ UNCHANGED <<restVars, s_last_throttle_pulse_time_us,
                s_last_steering_pulse_time_us, s_last_throttle_pulse_width_us,
                s_last_steering_pulse_width_us, s_last_rise_throttle_us,
                s_last_rise_steering_us, s_rc_mux, timer_us, pin, isr, real_us,
                phys_rise, good, stamp_t, stamp_w, ticks, edges>>

\* mutant: the read does not take s_rc_mux
RcReadEnterNoLock ==
  /\ rd.pc = "enter"
  /\ rd' = [rd EXCEPT !.pc = "time"]
  /\ UNCHANGED <<restVars, s_last_throttle_pulse_time_us,
                s_last_steering_pulse_time_us, s_last_throttle_pulse_width_us,
                s_last_steering_pulse_width_us, s_last_rise_throttle_us,
                s_last_rise_steering_us, s_rc_mux, timer_us, pin, isr, real_us,
                phys_rise, good, stamp_t, stamp_w, ticks, edges>>

\* rc_input.cpp:122, 132
RcReadEnterCritical ==
  /\ rd.pc = "enter"
  /\ s_rc_mux = "free"
  /\ s_rc_mux' = "task"
  /\ rd' = [rd EXCEPT !.pc = "time"]
  /\ UNCHANGED <<restVars, s_last_throttle_pulse_time_us,
                s_last_steering_pulse_time_us, s_last_throttle_pulse_width_us,
                s_last_steering_pulse_width_us, s_last_rise_throttle_us,
                s_last_rise_steering_us, timer_us, pin, isr, real_us, phys_rise,
                good, stamp_t, stamp_w, ticks, edges>>

\* rc_input.cpp:123, 133
RcReadCopyTime ==
  /\ rd.pc = "time"
  /\ rd' = [rd EXCEPT !.pc = "width", !.t_us = PulseTime(rd.ch),
                      !.gt = stamp_t[rd.ch], !.g = good[rd.ch]]
  /\ UNCHANGED <<restVars, s_last_throttle_pulse_time_us,
                s_last_steering_pulse_time_us, s_last_throttle_pulse_width_us,
                s_last_steering_pulse_width_us, s_last_rise_throttle_us,
                s_last_rise_steering_us, s_rc_mux, timer_us, pin, isr, real_us,
                phys_rise, good, stamp_t, stamp_w, ticks, edges>>

\* rc_input.cpp:124, 134
RcReadCopyWidth ==
  /\ rd.pc = "width"
  /\ rd' = [rd EXCEPT !.pc = "exit", !.w_us = PulseWidth(rd.ch),
                      !.gw = stamp_w[rd.ch]]
  /\ UNCHANGED <<restVars, s_last_throttle_pulse_time_us,
                s_last_steering_pulse_time_us, s_last_throttle_pulse_width_us,
                s_last_steering_pulse_width_us, s_last_rise_throttle_us,
                s_last_rise_steering_us, s_rc_mux, timer_us, pin, isr, real_us,
                phys_rise, good, stamp_t, stamp_w, ticks, edges>>

\* rc_input.cpp:125, 135
RcReadExitCritical ==
  /\ rd.pc = "exit"
  /\ s_rc_mux' = IF s_rc_mux = "task" THEN "free" ELSE s_rc_mux
  /\ rd' = [rd EXCEPT !.pc = "chan"]
  /\ UNCHANGED <<restVars, s_last_throttle_pulse_time_us,
                s_last_steering_pulse_time_us, s_last_throttle_pulse_width_us,
                s_last_steering_pulse_width_us, s_last_rise_throttle_us,
                s_last_rise_steering_us, timer_us, pin, isr, real_us, phys_rise,
                good, stamp_t, stamp_w, ticks, edges>>

\* rc_input.cpp:126, 136: return ReadChannel(t_us, w_us)
RcReadReturn ==
  /\ rd.pc = "chan"
  /\ rd' = [rd EXCEPT !.pc = "done", !.at = real_us,
                      !.out = ReadChannel(rd.t_us, rd.w_us, timer_us)]
  /\ UNCHANGED <<restVars, s_last_throttle_pulse_time_us,
                s_last_steering_pulse_time_us, s_last_throttle_pulse_width_us,
                s_last_steering_pulse_width_us, s_last_rise_throttle_us,
                s_last_rise_steering_us, s_rc_mux, timer_us, pin, isr, real_us,
                phys_rise, good, stamp_t, stamp_w, ticks, edges>>

\* RcInputInit has returned 0 and no edge has come yet; the control loop is
\* not followed (target "rc")
InitRc ==
  /\ LoopIdle
  /\ target = "rc"
  /\ fn_in = <<>>
  /\ fn_out = <<>>

NextRc ==
  \/ \E d \in TickSet : Tick(d)
  \/ \E p \in Pins : GpioEdge(p)
  \/ IsrEnterCritical
  \/ IsrEdgeBody
  \/ IsrStoreTime
  \/ IsrClearRise
  \/ IsrExitCritical
  \/ \E p \in Pins : RcInputReadStart(p)
  \/ RcReadEnterCritical
  \/ RcReadCopyTime
  \/ RcReadCopyWidth
  \/ RcReadExitCritical
  \/ RcReadReturn

SpecRc == InitRc /\ [][NextRc]_vars

\* the control loop of either target, or the RC capture on its own
InitRcActive == Init \/ InitRc

NextRcActive == Next \/ NextRc

SpecRcActive == InitRcActive /\ [][NextRcActive]_vars

----------------------------------------------------------------------------
(* Pulse mapping: the PWM output's conversion of a normalized value to a     *)
(* pulse width (esp32_s3/main/pwm_control.cpp) and the RC input's conversion *)
(* back (rc_input.cpp).                                                      *)

PWM_NEUTRAL_US == 1500
PWM_MIN_US == 1000
PWM_MAX_US == 2000

\* rc_vehicle::PulseWidthUsFromNormalized (rc_vehicle_common.hpp; spec 4.5):
\* linear over [-1, 1] -> [min, max] with 0 -> neutral, clamped; the uint16_t
\* result drops the fraction of a microsecond
PulseWidthUsFromNormalized(x, min_us, neutral_us, max_us) ==
  LET c == IF x > ONE THEN ONE ELSE IF x < -ONE THEN -ONE ELSE x
  IN  IF c >= 0 THEN (neutral_us * ONE + c * (max_us - neutral_us)) \div ONE
      ELSE (neutral_us * ONE + c * (neutral_us - min_us)) \div ONE

\* mutant: the minimum is passed in the place of the neutral width
ThrottlePulseUsNoNeutral(throttle) ==
  PulseWidthUsFromNormalized(throttle, PWM_MIN_US, PWM_MIN_US, PWM_MAX_US)

\* pwm_control.cpp:103-104 (and 109-110): the pulse width PwmControlSetThrottle
\* and PwmControlSetSteering hand to the channel
ThrottlePulseUs(throttle) ==
  PulseWidthUsFromNormalized(throttle, PWM_MIN_US, PWM_NEUTRAL_US, PWM_MAX_US)

PulseValues == (-ONE)..ONE

InitPulse ==
  /\ LoopIdle
  /\ target = "fn"
  /\ fn_in \in {<<x>> : x \in PulseValues}
  /\ fn_out = <<>>

\* x is put out as a PWM pulse, and a pulse of that width, just captured, is
\* read back (ReadChannel with an age of 0 ms)
PulseRoundTrip ==
  /\ fn_out = <<>>
  /\ Len(fn_in) = 1
  /\ LET pulse_us == ThrottlePulseUs(fn_in[1])
     IN  fn_out' = <<pulse_us>> \o ReadChannel(1, pulse_us, 1)
  /\ UNCHANGED <<fn_in, loopVars, rcVars, paceVars, bootVars, imuVars, telemVars>>

NextPulse == PulseRoundTrip

SpecPulse == InitPulse /\ [][NextPulse]_vars

----------------------------------------------------------------------------
(* Heartbeat of the UART link on the ESP32 side (esp32/main/uart_bridge.cpp). *)
(* The FreeRTOS tick counter is a fixed-width unsigned counter; one tick is   *)
(* taken as one millisecond.  fn_in holds the bridge's state together with    *)
(* the unwrapped time (history), fn_out the answer of the last query.         *)

\* width of the tick counter
TickBits == 13
TickMod == 2 ^ TickBits
\* number of time steps followed
MaxPongSteps == 4

PONG_TIMEOUT_MS == 6000

\* uart_bridge.cpp:11
PONG_TIMEOUT_TICKS == PONG_TIMEOUT_MS

\* time steps: one tick, half the timeout, one tick less than the timeout,
\* and the rest of the counter's period after a timeout
PongSteps == {1, 3000, 5999, TickMod - PONG_TIMEOUT_MS}

\* uart_bridge.cpp:12 (s_last_pong_tick = 0), scheduler start (tick 0)
InitPong ==
  /\ LoopIdle
  /\ target = "pong"
  /\ fn_in = [s_last_pong_tick |-> 0, tick |-> 0, real |-> 0,
              pong_real |-> Never, steps |-> 0]
  /\ fn_out = <<>>

\* the tick interrupt: xTaskGetTickCount() advances and wraps
PongTick(d) ==
  /\ target = "pong"
  /\ fn_in.steps < MaxPongSteps
  /\ fn_in' = [fn_in EXCEPT !.tick = (@ + d) % TickMod, !.real = @ + d,
                            !.steps = @ + 1]
  /\ fn_out' = <<>>
  /\ UNCHANGED <<loopVars, rcVars, paceVars, bootVars, imuVars, telemVars>>

\* uart_bridge.cpp:78-84 when s_bridge.ReceivePong() finds a PONG
UartBridgeReceivePong ==
  /\ target = "pong"
  /\ fn_in' = [fn_in EXCEPT !.s_last_pong_tick = fn_in.tick,
                            !.pong_real = fn_in.real]
  /\ fn_out' = <<>>
  /\ UNCHANGED <<loopVars, rcVars, paceVars, bootVars, imuVars, telemVars>>

\* uart_bridge.cpp:86-89
IsMcuConnected(s_last_pong_tick, tick) ==
  IF s_last_pong_tick = 0 THEN FALSE
  ELSE (tick - s_last_pong_tick) % TickMod < PONG_TIMEOUT_TICKS

\* a call of UartBridgeIsMcuConnected
UartBridgeIsMcuConnected ==
  /\ target = "pong"
  /\ fn_out' = <<IsMcuConnected(fn_in.s_last_pong_tick, fn_in.tick)>>
  /\ UNCHANGED <<fn_in, loopVars, rcVars, paceVars, bootVars, imuVars, telemVars>>

NextPong ==
  \/ \E d \in PongSteps : PongTick(d)
  \/ UartBridgeReceivePong
  \/ UartBridgeIsMcuConnected

SpecPong == InitPong /\ [][NextPong]_vars

----------------------------------------------------------------------------
(* Wi-Fi scan result (esp32_common/wifi_ap.cpp, WiFiStaScan).  fn_in is the  *)
(* list of records esp_wifi_scan_get_ap_records has fetched and the capacity *)
(* passed in *inout_count; fn_out is the return code, out_networks and       *)
(* *inout_count after the call.                                              *)

\* longest list of fetched records followed
MaxRecords == 3
\* largest capacity followed
MaxCapacity == 2

\* fetched records: a hidden network (empty SSID) and two named ones, each
\* seen weak or strong, on one of two channels with its own authmode
ScanRecords ==
  [ssid : {"", "home", "shop"}, rssi : {-70, -40}, primary : {1, 6},
   authmode : {3}]
  \cup [ssid : {"home"}, rssi : {-40}, primary : {11}, authmode : {0}]

RECURSIVE SeqsUpTo(_, _)
SeqsUpTo(S, n) ==
  IF n = 0 THEN {<<>>}
  ELSE LET shorter == SeqsUpTo(S, n - 1)
       IN  shorter \cup {Append(s, x) : s \in {t \in shorter : Len(t) = n - 1},
                                        x \in S}

\* wifi_ap.cpp:402-408: the index of the entry with this SSID, or capacity
ExistingIndex(out_networks, ssid, capacity) ==
  LET hits == {j \in 1..Len(out_networks) : out_networks[j].ssid = ssid}
  IN  IF hits = {} THEN capacity + 1
      ELSE CHOOSE j \in hits : \A k \in hits : j <= k

\* wifi_ap.cpp:421-427
ScanEntry(rec) ==
  [rssi |-> rec.rssi, channel |-> rec.primary, authmode |-> rec.authmode,
   ssid |-> rec.ssid]

\* wifi_ap.cpp:398-428: the loop from record i on (indices from 1)
RECURSIVE ScanLoop(_, _, _, _)
ScanLoop(records, i, out_networks, capacity) ==
  IF i > Len(records) THEN out_networks
  ELSE
    LET rec == records[i]
        existing == ExistingIndex(out_networks, rec.ssid, capacity)
    IN  IF rec.ssid = "" THEN ScanLoop(records, i + 1, out_networks, capacity)
        ELSE IF existing <= Len(out_networks)
        THEN ScanLoop(records, i + 1,
                      IF rec.rssi > out_networks[existing].rssi
                        THEN [out_networks EXCEPT ![existing] =
                                [@ EXCEPT !.rssi = rec.rssi,
                                          !.channel = rec.primary,
                                          !.authmode = rec.authmode]]
                        ELSE out_networks,
                      capacity)
        ELSE IF Len(out_networks) >= capacity THEN out_networks
        ELSE ScanLoop(records, i + 1, Append(out_networks, ScanEntry(rec)),
                      capacity)

\* wifi_ap.cpp:361-433 with the driver initialised and the scan itself
\* succeeding: return code, out_networks, *inout_count
WiFiStaScan(records, inout_count) ==
  IF inout_count = 0 THEN <<"ESP_ERR_INVALID_ARG", <<>>, inout_count>>
  ELSE LET out_networks == ScanLoop(records, 1, <<>>, inout_count)
       IN  <<"ESP_OK", out_networks, Len(out_networks)>>

InitScan ==
  /\ LoopIdle
  /\ target = "scan"
  /\ fn_in \in SeqsUpTo(ScanRecords, MaxRecords) \X (0..MaxCapacity)
  /\ fn_out = <<>>

WiFiStaScanCall ==
  /\ target = "scan"
  /\ fn_out = <<>>
  /\ fn_out' = WiFiStaScan(fn_in[1], fn_in[2])
  /\ UNCHANGED <<fn_in, loopVars, rcVars, paceVars, bootVars, imuVars, telemVars>>

NextScan == WiFiStaScanCall

SpecScan == InitScan /\ [][NextScan]_vars

----------------------------------------------------------------------------
(* Link protocol codec (common/protocol.hpp and uart_bridge_base.hpp, which  *)
(* the targets include; modelled from the specification's section 4.2 and    *)
(* the constants of esp32/main/config.hpp:35-43).  A frame is                *)
(*   prefix0 prefix1 version type length payload integrity                   *)
(* with a one-byte length and a one-byte integrity check over                *)
(* version + type + length + payload.  fn_in holds the bytes still on the    *)
(* wire and the receive buffer, fn_out the messages parsed so far and the    *)
(* result of the last receive call ("-": none since the last delivery).     *)

UART_FRAME_PREFIX_0 == 170
UART_FRAME_PREFIX_1 == 85
UART_PROTOCOL_VERSION == 1
UART_MSG_TYPE_COMMAND == 1
UART_MSG_TYPE_TELEM == 2
UART_MSG_TYPE_PING == 3
UART_MSG_TYPE_PONG == 4

\* longest payload followed
MaxPayload == 1
\* largest number of bytes one read of the transport delivers
MaxChunk == 3

Byte == 0..255
MsgTypes == {UART_MSG_TYPE_COMMAND, UART_MSG_TYPE_TELEM, UART_MSG_TYPE_PING,
             UART_MSG_TYPE_PONG}

RECURSIVE SumBytes(_)
SumBytes(bytes) ==
  IF bytes = <<>> THEN 0 ELSE bytes[1] + SumBytes(Tail(bytes))

\* the integrity check: the specification leaves the algorithm open; a
\* one-byte additive checksum stands for it
Integrity(bytes) == SumBytes(bytes) % 256

\* spec 4.2, wire format
Encode(msg) ==
  LET body == <<UART_PROTOCOL_VERSION, msg.type, Len(msg.payload)>>
                \o msg.payload
  IN  <<UART_FRAME_PREFIX_0, UART_FRAME_PREFIX_1>> \o body \o <<Integrity(body)>>

\* number of bytes of a frame around its payload
FrameOverhead == Len(Encode([type |-> UART_MSG_TYPE_PING, payload |-> <<>>]))

\* the buffer begins with a whole well-formed frame
WellFormed(rx) ==
  /\ Len(rx) >= FrameOverhead
  /\ rx[1] = UART_FRAME_PREFIX_0 /\ rx[2] = UART_FRAME_PREFIX_1
  /\ rx[3] = UART_PROTOCOL_VERSION
  /\ rx[4] \in MsgTypes
  /\ rx[5] <= MaxPayload
  /\ Len(rx) >= FrameOverhead + rx[5]
  /\ rx[FrameOverhead + rx[5]] = Integrity(SubSeq(rx, 3, 5 + rx[5]))

\* the buffer begins with bytes that can still become a well-formed frame
Incomplete(rx) ==
  /\ Len(rx) >= 1 => rx[1] = UART_FRAME_PREFIX_0
  /\ Len(rx) >= 2 => rx[2] = UART_FRAME_PREFIX_1
  /\ Len(rx) >= 3 => rx[3] = UART_PROTOCOL_VERSION
  /\ Len(rx) >= 4 => rx[4] \in MsgTypes
  /\ Len(rx) >= 5 => rx[5] <= MaxPayload /\ Len(rx) < FrameOverhead + rx[5]

\* mutant: a frame that fails a check is dropped whole, as many bytes as its
\* length byte announces
RECURSIVE DecodeDropFrame(_)
DecodeDropFrame(rx) ==
  IF WellFormed(rx)
  THEN [msg |-> <<[type |-> rx[4], payload |-> SubSeq(rx, 6, 5 + rx[5])]>>,
        rx |-> SubSeq(rx, FrameOverhead + rx[5] + 1, Len(rx))]
  ELSE IF Incomplete(rx) THEN [msg |-> <<>>, rx |-> rx]
  ELSE IF Len(rx) >= 5 /\ rx[1] = UART_FRAME_PREFIX_0
          /\ rx[2] = UART_FRAME_PREFIX_1 /\ rx[5] <= MaxPayload
       THEN DecodeDropFrame(SubSeq(rx, FrameOverhead + rx[5] + 1, Len(rx)))
  ELSE DecodeDropFrame(Tail(rx))

\* spec 4.2: one receive call.  The receiver scans for the prefix pair; bytes
\* that cannot begin a frame are dropped one at a time (resync); a frame that
\* is not complete yet stays in the buffer and the call returns no message.
RECURSIVE Decode(_)
Decode(rx) ==
  IF WellFormed(rx)
  THEN [msg |-> <<[type |-> rx[4], payload |-> SubSeq(rx, 6, 5 + rx[5])]>>,
        rx |-> SubSeq(rx, FrameOverhead + rx[5] + 1, Len(rx))]
  ELSE IF Incomplete(rx) THEN [msg |-> <<>>, rx |-> rx]
  ELSE Decode(Tail(rx))

\* messages of the frame that gets corrupted: a heartbeat and every one-byte
\* payload
CorruptSources ==
  {[type |-> UART_MSG_TYPE_PONG, payload |-> <<>>]}
  \cup {[type |-> UART_MSG_TYPE_COMMAND, payload |-> <<b>>] : b \in Byte}

\* a bad prefix (either byte), a bad checksum, or a truncated frame
Corruptions(frame) ==
  { [frame EXCEPT ![1] = 0], [frame EXCEPT ![2] = 0],
    [frame EXCEPT ![Len(frame)] = (@ + 1) % 256] }
  \cup {SubSeq(frame, 1, n) : n \in 1..(Len(frame) - 1)}

\* the valid frame that follows
ValidMsgs ==
  { [type |-> UART_MSG_TYPE_PONG, payload |-> <<>>],
    [type |-> UART_MSG_TYPE_TELEM, payload |-> <<UART_FRAME_PREFIX_1>>],
    [type |-> UART_MSG_TYPE_COMMAND, payload |-> <<UART_FRAME_PREFIX_0>>] }

\* rx_pos_ = 0 (esp32/main/uart_bridge.cpp:38); the sender has put a
\* corrupted frame and a valid frame on the wire
InitCodec ==
  /\ LoopIdle
  /\ target = "codec"
  /\ \E src \in CorruptSources, valid \in ValidMsgs :
       \E corrupted \in Corruptions(Encode(src)) :
         fn_in = [wire |-> corrupted \o Encode(valid), rx |-> <<>>,
                  bad |-> corrupted, good |-> valid]
  /\ fn_out = [msgs |-> <<>>, ret |-> "-"]

\* ReadAvailable delivers the next n bytes into the receive buffer
CodecFeed(n) ==
  /\ target = "codec"
  /\ n <= Len(fn_in.wire)
  /\ fn_in' = [fn_in EXCEPT !.wire = SubSeq(@, n + 1, Len(@)),
                            !.rx = @ \o SubSeq(fn_in.wire, 1, n)]
  /\ fn_out' = [fn_out EXCEPT !.ret = "-"]
  /\ UNCHANGED <<loopVars, rcVars, paceVars, bootVars, imuVars, telemVars>>

\* one receive call on the buffer
CodecReceive ==
  /\ target = "codec"
  /\ LET d == Decode(fn_in.rx)
     IN  /\ fn_in' = [fn_in EXCEPT !.rx = d.rx]
         /\ fn_out' = [msgs |-> fn_out.msgs \o d.msg,
                       ret |-> IF d.msg = <<>> THEN "none" ELSE "message"]
  /\ UNCHANGED <<loopVars, rcVars, paceVars, bootVars, imuVars, telemVars>>

NextCodec ==
  \/ \E n \in 1..MaxChunk : CodecFeed(n)
  \/ CodecReceive

SpecCodec == InitCodec /\ [][NextCodec]_vars

----------------------------------------------------------------------------
(* uart_bridge_task on the ESP32 (esp32/main/main.cpp:35-93) with the         *)
(* heartbeat functions of uart_bridge.cpp.  One tick is one millisecond.     *)
(* fn_in holds the task's state, the tick counter and the history the        *)
(* heartbeat properties speak about; fn_out is not used.                     *)

PING_INTERVAL_MS == 5000
UART_TASK_INTERVAL_MS == 20

\* the run is followed up to this time (two PINGs and their PONGs)
MaxBridgeTime == 11100
\* most ticks an iteration's own work adds to the period of vTaskDelay
PeriodSlack == 2

\* the PONG for a PING may be picked up by the first receive call after the
\* iteration that sent it, or by one of the last calls inside the window
PongInWindow(sent_real, real) ==
  real - sent_real < PONG_TIMEOUT_MS - PING_INTERVAL_MS

PongMayArrive(b) ==
  /\ b.pending # <<>>
  /\ PongInWindow(b.pending[1], b.real)
  /\ b.real > b.pending[1]
  /\ \/ b.polls = 0
     \/ ~PongInWindow(b.pending[1], b.real + UART_TASK_INTERVAL_MS)

\* main.cpp:37 (last_ping_ms = 0), uart_bridge.cpp:12, scheduler start
InitBridge ==
  /\ LoopIdle
  /\ target = "bridge"
  /\ fn_in = [pc |-> "ping", tick |-> 0, real |-> 0, last_ping_ms |-> 0,
              s_last_pong_tick |-> 0, pending |-> <<>>, polls |-> 0,
              pings |-> 0, ping_real |-> 0, ping_gap |-> PING_INTERVAL_MS,
              pong_seen |-> FALSE, late |-> FALSE]
  /\ fn_out = <<>>

\* main.cpp:40-47: the clock read and the PING
BridgePing ==
  /\ target = "bridge" /\ fn_in.pc = "ping"
  /\ LET now_ms == fn_in.tick
         due == (now_ms - fn_in.last_ping_ms) % TickMod >= PING_INTERVAL_MS
     IN  fn_in' = IF due
                  THEN [fn_in EXCEPT !.pc = "pong", !.last_ping_ms = now_ms,
                                     !.pending = <<fn_in.real>>, !.polls = 0,
                                     !.pings = IF @ < 2 THEN @ + 1 ELSE @,
                                     !.ping_real = fn_in.real,
                                     !.ping_gap = IF fn_in.pings = 0 THEN @
                                                  ELSE fn_in.real - fn_in.ping_real,
                                     !.late = @ \/ fn_in.pending # <<>>]
                  ELSE [fn_in EXCEPT !.pc = "pong"]
  /\ UNCHANGED <<fn_out, loopVars, rcVars, paceVars, bootVars, imuVars, telemVars>>

\* main.cpp:50 with uart_bridge.cpp:78-84: s_bridge.ReceivePong() finds the
\* PONG (got) or not
BridgeReceivePong(got) ==
  /\ target = "bridge" /\ fn_in.pc = "pong"
  /\ got => PongMayArrive(fn_in)
  /\ fn_in' = IF got
                THEN [fn_in EXCEPT !.pc = "delay",
                                   !.s_last_pong_tick = fn_in.tick,
                                   !.pending = <<>>, !.pong_seen = TRUE]
                ELSE [fn_in EXCEPT !.pc = "delay",
                                   !.polls = IF fn_in.pending # <<>>
                                                /\ fn_in.real > fn_in.pending[1]
                                             THEN 1 ELSE @,
                                   !.late = @ \/ (fn_in.pending # <<>> /\
                                     ~PongInWindow(fn_in.pending[1],
                                                   fn_in.real + UART_TASK_INTERVAL_MS))]
  /\ UNCHANGED <<fn_out, loopVars, rcVars, paceVars, bootVars, imuVars, telemVars>>

\* main.cpp:91: vTaskDelay, and the ticks the iteration's own work took
\* (followed from the first PING on)
BridgeDelay(slack) ==
  /\ target = "bridge" /\ fn_in.pc = "delay"
  /\ slack > 0 => fn_in.pings >= 1
  /\ fn_in.real + UART_TASK_INTERVAL_MS + slack <= MaxBridgeTime
  /\ fn_in' = [fn_in EXCEPT !.pc = "ping",
                            !.tick = (@ + UART_TASK_INTERVAL_MS + slack) % TickMod,
                            !.real = @ + UART_TASK_INTERVAL_MS + slack]
  /\ UNCHANGED <<fn_out, loopVars, rcVars, paceVars, bootVars, imuVars, telemVars>>

NextBridge ==
  \/ BridgePing
  \/ \E got \in BOOLEAN : BridgeReceivePong(got)
  \/ \E slack \in 0..PeriodSlack : BridgeDelay(slack)

SpecBridge == InitBridge /\ [][NextBridge]_vars

----------------------------------------------------------------------------
(* Wi-Fi station state (esp32_common/wifi_ap.cpp).  WiFiStaConnect and       *)
(* WiFiStaDisconnect run in the caller's task, wifi_event_handler in the     *)
(* event loop task, one event at a time; each critical section under         *)
(* s_wifi_mux and each driver call is one step.  fn_in holds s_sta_status,   *)
(* s_sta_should_connect, the call and the handler in progress, and the       *)
(* history the properties speak about; fn_out is the last snapshot returned  *)
(* by WiFiStaGetStatus.                                                      *)

\* API calls and events followed in one run
MaxWifiCalls == 2
MaxWifiEvents == 3

StaSsids == {"", "home", "shop"}
StaIps == {"192.168.1.7"}
DisconnectReasons == {201}
WifiEvents == {"WIFI_EVENT_STA_START", "WIFI_EVENT_STA_DISCONNECTED",
               "IP_EVENT_STA_GOT_IP"}

\* wifi_ap.cpp:33-43; a null pointer is written "null"
StaStatusSetConfigured(st, ssid) ==
  [st EXCEPT !.configured = (ssid # "null" /\ ssid # ""),
             !.ssid = IF ssid # "null" THEN ssid ELSE ""]

\* mutant: the IP string is kept when the station is no longer connected
StaStatusSetConnectedKeepIp(st, connected) ==
  [st EXCEPT !.connected = connected]

\* wifi_ap.cpp:45-52
StaStatusSetConnected(st, connected) ==
  [st EXCEPT !.connected = connected,
             !.ip = IF ~connected THEN "" ELSE @]

\* wifi_ap.cpp:54-59
StaStatusSetIp(st, ip) ==
  [st EXCEPT !.ip = ip, !.connected = TRUE]

\* wifi_ap.cpp:61-65
StaStatusSetDisconnectReason(st, reason) ==
  [st EXCEPT !.last_disconnect_reason = reason]

NoCall == [op |-> "none"]
NoEvent == [id |-> "none"]

\* wifi_ap.cpp:23-27 and WiFiApInit (223-243, 260): credentials were found in
\* NVS (have_sta) or not
InitWifi ==
  /\ LoopIdle
  /\ target = "wifi"
  /\ \E have_sta \in BOOLEAN :
       fn_in = [s_sta_status |->
                  StaStatusSetConfigured(
                    [configured |-> FALSE, connected |-> FALSE,
                     last_disconnect_reason |-> 0, ssid |-> "", ip |-> ""],
                    IF have_sta THEN "home" ELSE "null"),
                s_sta_should_connect |-> have_sta,
                call |-> NoCall, ev |-> NoEvent,
                calls |-> 0, events |-> 0,
                phase |-> "init",
                attempt_phase |-> "none",
                last_ev |-> NoEvent]
  /\ fn_out = <<>>

WifiRest == <<fn_out, loopVars, rcVars, paceVars, bootVars, imuVars, telemVars>>

\* wifi_ap.cpp:289-296: the call begins; an empty SSID returns
\* ESP_ERR_INVALID_ARG at once
WiFiStaConnectCall(ssid) ==
  /\ target = "wifi"
  /\ fn_in.call = NoCall /\ fn_in.calls < MaxWifiCalls
  /\ fn_in' =
       IF ssid = "" THEN [fn_in EXCEPT !.calls = @ + 1]
       ELSE [fn_in EXCEPT !.calls = @ + 1,
                          !.call = [op |-> "connect", pc |-> "configured",
                                    ssid |-> ssid],
                          !.phase = "connecting",
                          !.ev = IF @ = NoEvent THEN @
                                 ELSE [@ EXCEPT !.stable = FALSE]]
  /\ UNCHANGED WifiRest

\* wifi_ap.cpp:312-327, one statement per step
WiFiStaConnectStep ==
  /\ target = "wifi"
  /\ fn_in.call.op = "connect"
  /\ fn_in' =
       CASE fn_in.call.pc = "configured" ->
              [fn_in EXCEPT !.s_sta_status =
                              StaStatusSetConfigured(@, fn_in.call.ssid),
                            !.call.pc = "connected"]
         [] fn_in.call.pc = "connected" ->
              [fn_in EXCEPT !.s_sta_status = StaStatusSetConnected(@, FALSE),
                            !.call.pc = "should"]
         [] fn_in.call.pc = "should" ->
              [fn_in EXCEPT !.s_sta_should_connect = TRUE,
                            !.call.pc = "driver"]
         [] fn_in.call.pc = "driver" ->
              [fn_in EXCEPT !.call = NoCall, !.phase = "connect"]
  /\ UNCHANGED WifiRest

\* wifi_ap.cpp:330
WiFiStaDisconnectCall(forget) ==
  /\ target = "wifi"
  /\ fn_in.call = NoCall /\ fn_in.calls < MaxWifiCalls
  /\ fn_in' = [fn_in EXCEPT !.calls = @ + 1,
                            !.call = [op |-> "disconnect", pc |-> "should",
                                      forget |-> forget],
                            !.phase = "disconnecting",
                            !.ev = IF @ = NoEvent THEN @
                                   ELSE [@ EXCEPT !.stable = FALSE]]
  /\ UNCHANGED WifiRest

\* wifi_ap.cpp:331-342
WiFiStaDisconnectStep ==
  /\ target = "wifi"
  /\ fn_in.call.op = "disconnect"
  /\ fn_in' =
       CASE fn_in.call.pc = "should" ->
              [fn_in EXCEPT !.s_sta_should_connect = FALSE,
                            !.call.pc = "connected"]
         [] fn_in.call.pc = "connected" ->
              [fn_in EXCEPT !.s_sta_status = StaStatusSetConnected(@, FALSE),
                            !.call.pc = IF fn_in.call.forget THEN "forget"
                                        ELSE "driver"]
         [] fn_in.call.pc = "forget" ->
              [fn_in EXCEPT !.s_sta_status = StaStatusSetConfigured(@, "null"),
                            !.call.pc = "driver"]
         [] fn_in.call.pc = "driver" ->
              [fn_in EXCEPT !.call = NoCall, !.phase = "disconnect"]
  /\ UNCHANGED WifiRest

\* the event loop dispatches an event to wifi_event_handler (121-126)
WifiEventDispatch(id) ==
  /\ target = "wifi"
  /\ fn_in.ev = NoEvent /\ fn_in.events < MaxWifiEvents
  /\ fn_in' = [fn_in EXCEPT !.events = @ + 1,
                            !.ev = [id |-> id,
                                    pc |-> IF id = "WIFI_EVENT_STA_DISCONNECTED"
                                             THEN "connected"
                                           ELSE IF id = "WIFI_EVENT_STA_START"
                                             THEN "read"
                                           ELSE "ip",
                                    should_connect |-> FALSE,
                                    attempted |-> FALSE,
                                    stable |-> fn_in.phase = "connect"]]
  /\ UNCHANGED WifiRest

\* wifi_ap.cpp:127-166, one critical section or driver call per step
WifiEventHandlerStep ==
  /\ target = "wifi"
  /\ fn_in.ev # NoEvent
  /\ \E ip \in StaIps, reason \in DisconnectReasons :
       fn_in' =
         CASE fn_in.ev.pc = "connected" ->
                [fn_in EXCEPT !.s_sta_status = StaStatusSetConnected(@, FALSE),
                              !.ev.pc = "reason"]
           [] fn_in.ev.pc = "reason" ->
                [fn_in EXCEPT !.s_sta_status =
                                StaStatusSetDisconnectReason(@, reason),
                              !.ev.pc = "read"]
           [] fn_in.ev.pc = "read" ->
                [fn_in EXCEPT !.ev.should_connect = fn_in.s_sta_should_connect,
                              !.ev.pc = "connect"]
           [] fn_in.ev.pc = "connect" ->
                [fn_in EXCEPT !.ev = NoEvent,
                              !.attempt_phase = IF fn_in.ev.should_connect
                                                  THEN fn_in.phase ELSE @,
                              !.last_ev = [fn_in.ev EXCEPT
                                             !.attempted = fn_in.ev.should_connect,
                                             !.pc = "done"]]
           [] fn_in.ev.pc = "ip" ->
                [fn_in EXCEPT !.s_sta_status = StaStatusSetIp(@, ip),
                              !.ev = NoEvent,
                              !.last_ev = [fn_in.ev EXCEPT !.pc = "done"]]
  /\ UNCHANGED WifiRest

\* wifi_ap.cpp:345-360: the copy under s_wifi_mux
WiFiStaGetStatus ==
  /\ target = "wifi"
  /\ fn_out' = <<fn_in.s_sta_status>>
  /\ UNCHANGED <<fn_in, loopVars, rcVars, paceVars, bootVars, imuVars, telemVars>>

NextWifi ==
  \/ \E ssid \in StaSsids : WiFiStaConnectCall(ssid)
  \/ WiFiStaConnectStep
  \/ \E forget \in BOOLEAN : WiFiStaDisconnectCall(forget)
  \/ WiFiStaDisconnectStep
  \/ \E id \in WifiEvents : WifiEventDispatch(id)
  \/ WifiEventHandlerStep
  \/ WiFiStaGetStatus

SpecWifi == InitWifi /\ [][NextWifi]_vars


----------------------------------------------------------------------------
(* Start-up of the esp32_s3 firmware call by call: the LEDC driver behind    *)
(* pwm_control.cpp, VehicleControlInit called any number of times, the       *)
(* setters and VehicleControlOnWifiCommand called at any point, and the      *)
(* first statements of every control task created.  The state is the record  *)
(* fn_in; the results of the driver and FreeRTOS calls are inputs.  Calls    *)
(* come one after another (target "start").                                  *)

MaxStartCalls == 4       \* calls made from outside in one run

PWM_FREQUENCY_HZ == 50
LEDC_TIMER_14_BIT == 14
LEDC_TIMER_13_BIT == 13

PwmChannels == {"throttle", "steering"}
StartValues == { -ONE, 0, ONE \div 2 }

\* what ledc_timer_config (first and second try), ledc_channel_config (per
\* channel), RcInputInit, ImuInit, xQueueCreate and xTaskCreate return if
\* they are called (TRUE: success)
StartResults == [timer : BOOLEAN, timer_fallback : BOOLEAN,
                 throttle_cfg : BOOLEAN, steering_cfg : BOOLEAN,
                 rc : BOOLEAN, imu : BOOLEAN, queue : BOOLEAN, task : BOOLEAN]

\* pwm_control.cpp:20-22
PeriodUs == 1000000 \div PWM_FREQUENCY_HZ

\* pwm_control.cpp:24-26
DutyMax(s_duty_resolution) == 2 ^ s_duty_resolution - 1

\* pwm_control.cpp:28-37
DutyFromPulseUs(pulse_us, s_duty_resolution) ==
  LET duty_max == DutyMax(s_duty_resolution)
      duty == (pulse_us * duty_max) \div PeriodUs
  IN  IF duty > duty_max THEN duty_max ELSE duty

\* mutant: the channel is written whether or not the driver is initialised
SetChannelPulseUsNoCheck(st, channel, pulse_us) ==
  [st EXCEPT !.duty[channel] = DutyFromPulseUs(pulse_us, st.s_duty_resolution),
             !.hw_writes = @ + 1,
             !.pwm_ret = 0]

\* pwm_control.cpp:39-46; ledc_set_duty and ledc_update_duty succeed on a
\* channel that ledc_channel_config has configured, and s_inited is set only
\* after both channels were
SetChannelPulseUs(st, channel, pulse_us) ==
  IF ~st.pwm_inited THEN [st EXCEPT !.pwm_ret = 0 - 1]
  ELSE [st EXCEPT !.duty[channel] =
                     DutyFromPulseUs(pulse_us, st.s_duty_resolution),
                  !.hw_writes = @ + 1,
                  !.pwm_ret = 0]

\* pwm_control.cpp:114-117
PwmControlSetNeutral(st) ==
  SetChannelPulseUs(SetChannelPulseUs(st, "throttle", PWM_NEUTRAL_US),
                    "steering", PWM_NEUTRAL_US)

\* pwm_control.cpp:102-106
PwmControlSetThrottle(st, throttle) ==
  SetChannelPulseUs(st, "throttle", ThrottlePulseUs(throttle))

\* pwm_control.cpp:108-112
PwmControlSetSteering(st, steering) ==
  SetChannelPulseUs(st, "steering",
                    PulseWidthUsFromNormalized(steering, PWM_MIN_US,
                                               PWM_NEUTRAL_US, PWM_MAX_US))

\* pwm_control.cpp:48-100; ledc_channel_config starts a channel with duty 0
PwmControlInit(st, r) ==
  LET s0 == [st EXCEPT !.pwm_inits = @ + 1]
      s1 == IF r.timer THEN s0
            ELSE [s0 EXCEPT !.s_duty_resolution = LEDC_TIMER_13_BIT]
      s2 == [s1 EXCEPT !.configured = @ \cup {"throttle"},
                       !.duty["throttle"] = 0]
      s3 == [s2 EXCEPT !.configured = @ \cup {"steering"},
                       !.duty["steering"] = 0]
  IN  IF ~r.timer /\ ~r.timer_fallback THEN [s1 EXCEPT !.pwm_ret = 0 - 1]
      ELSE IF ~r.throttle_cfg THEN [s1 EXCEPT !.pwm_ret = 0 - 1]
      ELSE IF ~r.steering_cfg THEN [s2 EXCEPT !.pwm_ret = 0 - 1]
      ELSE [PwmControlSetNeutral([s3 EXCEPT !.pwm_inited = TRUE])
              EXCEPT !.pwm_ret = 0]

\* a task xTaskCreate has made and the scheduler has not run yet
TaskCreated == [pc |-> "created", commanded |-> <<>>, applied |-> <<>>]

\* vehicle_control.cpp:187-239, the call past the test of s_inited
VehicleControlInitBody(st, r) ==
  LET s1 == PwmControlInit(st, r)
      s2 == [s1 EXCEPT !.s_rc_enabled = r.rc,
                       !.s_imu_enabled = r.imu,
                       !.failsafe_inits = @ + 1]
      s3 == [s2 EXCEPT !.s_cmd_queue = s2.queues + 1,
                       !.queues = @ + 1,
                       !.queue_item = <<>>]
  IN  IF s1.pwm_ret # 0 THEN [s1 EXCEPT !.ret = "ESP_FAIL"]
      ELSE IF ~r.queue THEN [s2 EXCEPT !.s_cmd_queue = 0,
                                       !.queue_item = <<>>,
                                       !.ret = "ESP_FAIL"]
      ELSE IF ~r.task THEN [s3 EXCEPT !.ret = "ESP_FAIL"]
      ELSE [s3 EXCEPT !.tasks = Append(@, TaskCreated),
                      !.s_inited = TRUE,
                      !.ret = "ESP_OK"]

\* mutant: the call does not look at s_inited
VehicleControlInitNoGuard(st, r) == VehicleControlInitBody(st, r)

\* vehicle_control.cpp:185-240
VehicleControlInitCall(st, r) ==
  IF st.s_inited THEN [st EXCEPT !.ret = "ESP_OK"]
  ELSE VehicleControlInitBody(st, r)

\* vehicle_control.cpp:242-252: xQueueOverwrite on the queue of length 1
VehicleControlOnWifiCommandCall(st, throttle, steering) ==
  IF st.s_cmd_queue = 0 THEN st
  ELSE [st EXCEPT !.queue_item =
                     <<[throttle |-> ClampNormalized(throttle),
                        steering |-> ClampNormalized(steering)]>>]

\* statics of pwm_control.cpp:18-19 and vehicle_control.cpp:30-33 at reset;
\* s_cmd_queue 0 is nullptr, a queue's handle is its number
InitStart ==
  /\ LoopIdle
  /\ target = "start"
  /\ fn_in = [pwm_inited |-> FALSE,
              s_duty_resolution |-> LEDC_TIMER_14_BIT,
              configured |-> {},
              duty |-> [ch \in PwmChannels |-> 0],
              hw_writes |-> 0,
              pwm_inits |-> 0,
              pwm_ret |-> 0,
              s_inited |-> FALSE,
              s_rc_enabled |-> FALSE,
              s_imu_enabled |-> FALSE,
              failsafe_inits |-> 0,
              s_cmd_queue |-> 0,
              queues |-> 0,
              queue_item |-> <<>>,
              tasks |-> <<>>,
              ret |-> "none",
              calls |-> 0,
              last |-> "none",
              ok_seen |-> FALSE]
  /\ fn_out = <<>>

StartRest == <<fn_out, loopVars, rcVars, paceVars, bootVars, imuVars, telemVars>>

\* fn_in' after a call from outside that leaves the driver and module state st
StartCalled(st, name) ==
  /\ target = "start"
  /\ fn_in.calls < MaxStartCalls
  /\ fn_in' = [st EXCEPT !.calls = @ + 1,
                         !.last = name,
                         !.ok_seen = @ \/ (name = "VehicleControlInit"
                                           /\ st.ret = "ESP_OK")]
  /\ UNCHANGED StartRest

\* esp32_s3/main/main.cpp:38, and any further call
StartVehicleControlInit ==
  \E r \in StartResults :
    StartCalled(VehicleControlInitCall(fn_in, r), "VehicleControlInit")

StartSetThrottle ==
  \E x \in StartValues :
    StartCalled(PwmControlSetThrottle(fn_in, x), "PwmControlSetThrottle")

StartSetSteering ==
  \E x \in StartValues :
    StartCalled(PwmControlSetSteering(fn_in, x), "PwmControlSetSteering")

StartSetNeutral ==
  StartCalled(PwmControlSetNeutral(fn_in), "PwmControlSetNeutral")

\* esp32_s3/main/main.cpp:16, the WebSocket handler's call
StartOnWifiCommand ==
  \E x \in StartValues, y \in StartValues :
    StartCalled(VehicleControlOnWifiCommandCall(fn_in, x, y),
                "VehicleControlOnWifiCommand")

\* vehicle_control.cpp:40-48: a created task is scheduled and initialises its
\* locals <<throttle, steering>>
StartTaskRun ==
  /\ target = "start"
  /\ \E i \in 1..Len(fn_in.tasks) :
       /\ fn_in.tasks[i].pc = "created"
       /\ fn_in' = [fn_in EXCEPT !.tasks[i] = [pc |-> "loop",
                                               commanded |-> <<0, 0>>,
                                               applied |-> <<0, 0>>],
                                 !.last = "vehicle_control_task"]
  /\ UNCHANGED StartRest

NextStart ==
  \/ StartVehicleControlInit
  \/ StartSetThrottle
  \/ StartSetSteering
  \/ StartSetNeutral
  \/ StartOnWifiCommand
  \/ StartTaskRun

SpecStart == InitStart /\ [][NextStart]_vars

----------------------------------------------------------------------------
(* The MPU-6050 driver's conversion of one sample to telemetry: Read scales  *)
(* the six raw registers, ConvertToTelem casts value * 1000 to int16_t       *)
(* (target "imu16").  A float-to-integer cast whose value does not fit the   *)
(* destination is undefined; the builds truncate the 32-bit result to its    *)
(* low 16 bits or saturate.                                                  *)

INT16_MIN == -32768
INT16_MAX == 32767

FitsInt16(v) == INT16_MIN <= v /\ v <= INT16_MAX

Wrap16(v) == ((v - INT16_MIN) % 65536) + INT16_MIN
Saturate16(v) == IF v > INT16_MAX THEN INT16_MAX
                 ELSE IF v < INT16_MIN THEN INT16_MIN ELSE v

CastOutcomes == {"wrap", "saturate"}

\* static_cast<int16_t>(float) of a float whose integral part is v
CastInt16(v, outcome) ==
  IF FitsInt16(v) THEN v
  ELSE IF outcome = "wrap" THEN Wrap16(v) ELSE Saturate16(v)

\* common/mpu6050_spi.cpp:87-98
Mpu6050ConvertToTelem(data, outcome) ==
  [i \in 1..6 |-> CastInt16(TruncDiv(data[i], 10), outcome)]

\* raw register values: the ends of int16_t, zero, and the largest rotation
\* whose value in 1e-3 deg/s fits int16_t with its successor
ImuRawValues == {INT16_MIN, -4293, 0, 4292, 4293, INT16_MAX}

InitImu16 ==
  /\ LoopIdle
  /\ target = "imu16"
  /\ fn_in \in {<<a, b, 0, g, h, 0>> : a \in ImuRawValues, b \in ImuRawValues,
                                       g \in ImuRawValues, h \in ImuRawValues}
  /\ fn_out = <<>>

\* one sample is read and converted: fn_out = <<ImuData, telemetry fields>>
Imu16Sample(outcome) ==
  /\ target = "imu16"
  /\ fn_out = <<>>
  /\ LET r == Mpu6050Read(TRUE, TRUE, XferFailAt(0), fn_in, ImuZero)
     IN  fn_out' = <<r[2], Mpu6050ConvertToTelem(r[2], outcome)>>
  /\ UNCHANGED <<fn_in, loopVars, rcVars, paceVars, bootVars, imuVars, telemVars>>

NextImu16 == \E outcome \in CastOutcomes : Imu16Sample(outcome)

SpecImu16 == InitImu16 /\ [][NextImu16]_vars

----------------------------------------------------------------------------
(* stm32 platform_delay_ms against the SysTick counter (target "delay").     *)
(* The counter _millis has MillisBits bits here.  The delay loop is a load,  *)
(* a compare and a nop, and SysTick fires once per millisecond: the loop     *)
(* tests the counter at least once between two ticks.                        *)

MillisBits == 6          \* width of _millis
MaxDelayMs == 3          \* largest argument of platform_delay_ms

MillisMod == 2 ^ MillisBits

\* no call of platform_delay_ms is in progress
DelayIdle(millis) ==
  [millis |-> millis, pc |-> "idle", ms |-> 0, end |-> 0, start |-> 0,
   elapsed |-> 0, tested |-> TRUE]

\* platform.cpp:5, at any point of the program's run
InitDelay ==
  /\ LoopIdle
  /\ target = "delay"
  /\ \E m \in 0..(MillisMod - 1) : fn_in = DelayIdle(m)
  /\ fn_out = <<>>

DelayRest == <<fn_out, loopVars, rcVars, paceVars, bootVars, imuVars, telemVars>>

\* platform.cpp:7; elapsed counts the ticks since the call in progress began
SysTickHandler ==
  /\ target = "delay"
  /\ fn_in.pc = "loop" => fn_in.tested
  /\ fn_in' = [fn_in EXCEPT !.millis = (@ + 1) % MillisMod,
                            !.elapsed = IF fn_in.pc = "loop" THEN @ + 1 ELSE @,
                            !.tested = FALSE]
  /\ UNCHANGED DelayRest

\* platform.cpp:12; start is the counter at the call
PlatformDelayCall(ms) ==
  /\ target = "delay"
  /\ fn_in.pc = "idle"
  /\ fn_in' = [fn_in EXCEPT !.pc = "loop",
                            !.ms = ms,
                            !.end = (fn_in.millis + ms) % MillisMod,
                            !.start = fn_in.millis,
                            !.elapsed = 0,
                            !.tested = FALSE]
  /\ UNCHANGED DelayRest

\* platform.cpp:13-15, one test of the loop condition
PlatformDelayTest ==
  /\ target = "delay"
  /\ fn_in.pc = "loop"
  /\ fn_in' = IF fn_in.millis < fn_in.end
              THEN [fn_in EXCEPT !.tested = TRUE]
              ELSE [fn_in EXCEPT !.pc = "returned", !.tested = TRUE]
  /\ UNCHANGED DelayRest

\* stm32/main/main.cpp:76-145: the caller goes on to its next call
PlatformDelayReturn ==
  /\ target = "delay"
  /\ fn_in.pc = "returned"
  /\ fn_in' = DelayIdle(fn_in.millis)
  /\ UNCHANGED DelayRest

NextDelay ==
  \/ SysTickHandler
  \/ \E ms \in 0..MaxDelayMs : PlatformDelayCall(ms)
  \/ PlatformDelayTest
  \/ PlatformDelayReturn

\* the tick interrupt keeps firing and the loop keeps running
SpecDelay ==
  /\ InitDelay
  /\ [][NextDelay]_vars
  /\ WF_vars(SysTickHandler)
  /\ WF_vars(PlatformDelayTest)
----------------------------------------------------------------------------
(* Views of the state shared by the properties *)

\* arbitration output: commanded_* (s3), current_* (stm32)
Commanded ==
  IF target = "s3" THEN <<commanded_throttle, commanded_steering>>
  ELSE <<current_throttle, current_steering>>

\* value the slew limiter holds: applied_* (s3), current_* (stm32)
Applied ==
  IF target = "s3" THEN <<applied_throttle, applied_steering>>
  ELSE <<current_throttle, current_steering>>

PwmOut == <<pwm_throttle, pwm_steering>>

Neutral == <<0, 0>>

\* the RC poll and the network receive of this iteration are done
AfterArbitration ==
  IF target = "s3" THEN pc \in {"imu", "failsafe", "pwm", "telem"}
  ELSE pc \in {"imu", "failsafe", "telem"}

\* every step of the loop body that touches the control state is done
EndOfIteration == pc = "telem"

\* the command a submission stores for arguments v
InUnit(v) == v >= -ONE /\ v <= ONE
ClampedAs(v, out) ==
  /\ v > ONE => out = ONE
  /\ v < -ONE => out = -ONE
  /\ InUnit(v) => out = v

----------------------------------------------------------------------------
(* C1: RC preemption.  In every iteration in which rc_active is true, after  *)
(* the arbitration step the commanded throttle/steering equal the latest RC  *)
(* reading, also when a network command was received in that iteration, and  *)
(* wifi_active is false (both targets).                                      *)
C1_RcPreemption ==
  (rc_active /\ AfterArbitration) =>
    /\ rc_throttle # <<>> /\ rc_steering # <<>>
    /\ Commanded = <<rc_throttle[1], rc_steering[1]>>
    /\ ~wifi_active

\* RC is active and a different network command was received in this iteration
C1_Witness ==
  /\ rc_active /\ AfterArbitration
  /\ cmd # <<>>
  /\ <<cmd[1].throttle, cmd[1].steering>> # <<rc_throttle[1], rc_steering[1]>>

(* C2: at the end of every iteration in which the failsafe is active,        *)
(* commanded and applied are (0,0) and the PWM outputs hold neutral.         *)
C2_FailsafeHoldsNeutral ==
  (EndOfIteration /\ failsafe_active) =>
    (Commanded = Neutral /\ Applied = Neutral /\ PwmOut = Neutral)

(* C3: failsafe activation timing.  The failsafe is active exactly when the  *)
(* latest FailsafeUpdate call (or FailsafeInit) found no source active for   *)
(* FAILSAFE_TIMEOUT_MS or more since last_active_source_time, so the first   *)
(* call that returns true is the first one at which the timeout has elapsed; *)
(* in the iteration of a call that returns true commanded and applied are    *)
(* (0,0) and the PWM outputs are neutral.                                    *)
C3_FailsafeTiming ==
  /\ failsafe_active <=>
       Sub32(last_failsafe_update, last_active_source_time) >= FAILSAFE_TIMEOUT_MS
  /\ fs_ret = "true" =>
       (Commanded = Neutral /\ Applied = Neutral /\ PwmOut = Neutral)

\* the call that activates the failsafe, after a source had been active
C3_Witness ==
  /\ fs_ret = "true" /\ ~fs_prev
  /\ last_active_source_time # BootMs
  /\ Sub32(now, last_active_source_time) >= FAILSAFE_TIMEOUT_MS

(* C4: failsafe recovery.  A FailsafeUpdate call with RC or the network      *)
(* source active returns false and leaves the failsafe inactive; a call with *)
(* no active source keeps an active failsafe active.                         *)
C4_FailsafeRecovery ==
  fs_ret # "skip" =>
    /\ (rc_active \/ wifi_active) => (fs_ret = "false" /\ ~failsafe_active)
    /\ (fs_prev /\ ~rc_active /\ ~wifi_active) =>
         (fs_ret = "true" /\ failsafe_active)

\* a call that ends an active failsafe
C4_Witness == fs_ret = "false" /\ fs_prev /\ (rc_active \/ wifi_active)

(* C5: the failsafe becomes active only after neither source has supplied a  *)
(* command for FAILSAFE_TIMEOUT_MS or more (both targets).                   *)
C5_ActivatesOnlyAfterSilence ==
  (fs_ret = "true" /\ ~fs_prev) =>
    Sub32(now, last_supply) >= FAILSAFE_TIMEOUT_MS

(* C6: outside failsafe, the value handed to a PWM channel at a PWM update   *)
(* differs from the value handed before by at most max_rate * dt.            *)
C6_SlewBoundOnOutput ==
  [][(last_pwm_update' # last_pwm_update /\ ~failsafe_active) =>
       LET dt == Sub32(last_pwm_update', last_pwm_update)
       IN  /\ Abs(pwm_throttle' - pwm_throttle) * 1000
                <= SLEW_RATE_THROTTLE_MAX_PER_SEC * dt
           /\ Abs(pwm_steering' - pwm_steering) * 1000
                <= SLEW_RATE_STEERING_MAX_PER_SEC * dt]_vars

(* C7: ApplySlewRate(target, current, max_per_sec, dt_ms) returns target     *)
(* when |target - current| <= max_per_sec * dt_ms / 1000, otherwise current  *)
(* moved by exactly that amount toward target; the result lies between       *)
(* current and target, and with dt_ms = 0 it is current.                     *)
C7_ApplySlewRate ==
  fn_out # <<>> =>
    LET tgt == fn_in[1]
        cur == fn_in[2]
        max1000 == fn_in[3] * fn_in[4]     \* 1000 * max_per_sec * dt_ms / 1000
        out == fn_out[1]
    IN  /\ Abs(tgt - cur) * 1000 <= max1000 => out = tgt
        /\ (tgt - cur) * 1000 > max1000 => (out - cur) * 1000 = max1000
        /\ (cur - tgt) * 1000 > max1000 => (cur - out) * 1000 = max1000
        /\ (cur <= out /\ out <= tgt) \/ (tgt <= out /\ out <= cur)
        /\ fn_in[4] = 0 => out = cur

\* a call in which the target is farther away than one step
C7_Witness ==
  /\ fn_out # <<>> /\ fn_in[4] > 0
  /\ Abs(fn_in[1] - fn_in[2]) * 1000 > fn_in[3] * fn_in[4]
  /\ fn_out[1] # fn_in[1] /\ fn_out[1] # fn_in[2]

(* C8: the network command cell is one slot with last-write-wins.  The slot  *)
(* holds exactly the most recent submission since the last drain (nothing if *)
(* none), whatever it held before, and a drain yields exactly that.          *)
LastOf(q) == IF q = <<>> THEN <<>> ELSE <<q[Len(q)]>>

C8_LastWriteWins ==
  target = "s3" =>
    /\ s_cmd_queue = LastOf(pending)
    /\ pc = "failsafe" => cmd = LastOf(expect)

\* a drain after two different submissions
C8_Witness ==
  /\ target = "s3" /\ pc = "failsafe"
  /\ Len(expect) = 2 /\ expect[1] # expect[2]
  /\ cmd = <<expect[2]>>

(* C9: a network command submitted while RC is active becomes commanded, and *)
(* the network source active, on the first tick in which RC is inactive, if  *)
(* it is still within the network-command timeout and no newer one came.     *)
C9_SubmittedUnderRcNotLost ==
  (target = "s3" /\ pc = "failsafe" /\ ~rc_active /\ sub # <<>>
     /\ Sub32(now, sub[1].t) < WIFI_CMD_TIMEOUT_MS) =>
    /\ Commanded = <<sub[1].c.throttle, sub[1].c.steering>>
    /\ wifi_active

(* C10: every stored or sent command has throttle and steering in [-1, 1]:   *)
(* above 1 becomes 1, below -1 becomes -1, inside the range is unchanged.    *)
Stored == IF target = "s3" THEN s_cmd_queue ELSE uart_rx

C10_Clamped ==
  /\ \A i \in 1..Len(Stored) :
       InUnit(Stored[i].throttle) /\ InUnit(Stored[i].steering)
  /\ raw # <<>> =>
       /\ Stored # <<>>
       /\ ClampedAs(raw[1], Stored[Len(Stored)].throttle)
       /\ ClampedAs(raw[2], Stored[Len(Stored)].steering)

\* a command sent over the bridge with throttle above 1 and steering below -1
C10_Witness ==
  /\ target = "stm32" /\ raw # <<>> /\ raw[1] > ONE /\ raw[2] < -ONE
  /\ uart_rx # <<>> /\ uart_rx[Len(uart_rx)] = Cmd(ONE, -ONE)

(* C11: in an iteration in which RC is inactive and no network command is    *)
(* received, the RC poll and the network receive leave commanded throttle    *)
(* and steering as they were, also after the network-command timeout; a      *)
(* step that changes commanded is an RC poll that finds RC active, a receive *)
(* of a network command, or a failsafe step that sets it to neutral.         *)
C11_ArbitrationKeepsCommanded ==
  [][/\ (pc = "rc" /\ ~rc_active') => Commanded' = Commanded
     /\ (pc = "cmd" /\ ~rc_active /\ cmd' = <<>>) => Commanded' = Commanded
     /\ Commanded' # Commanded =>
          \/ pc = "rc" /\ rc_active'
          \/ pc = "cmd" /\ cmd' # <<>>
          \/ pc = "failsafe" /\ fs_ret' = "true" /\ Commanded' = Neutral]_vars

\* after the arbitration of an iteration without RC and without a network
\* command, the last command being older than the timeout: commanded is kept
C11_Witness ==
  /\ target = "s3" /\ pc = "failsafe" /\ ~rc_active /\ cmd = <<>>
  /\ last_wifi_cmd_ms # 0
  /\ Sub32(now, last_wifi_cmd_ms) >= WIFI_CMD_TIMEOUT_MS
  /\ ~wifi_active /\ ~failsafe_active
  /\ Commanded # Neutral

(* C12: pulse capture.  When the ISR has handled a falling edge of a channel *)
(* whose rising edge was recorded, the channel's stored (width, time) is     *)
(* (now - last_rise, now) if that width lies in [RC_IN_PULSE_MIN_US,         *)
(* RC_IN_PULSE_MAX_US] and is the previous pair otherwise; a falling edge    *)
(* with no recorded rising edge leaves the pair unchanged; no edge changes   *)
(* the other channel's stored state.                                         *)
C12_PulseCapture ==
  isr.pc = "exit" =>
    LET p == isr.gpio_num
        pre == isr.pre
        width == SubUs(isr.now_us, pre.rise[p])
    IN  /\ (isr.level = 0 /\ pre.rise[p] # 0) =>
             IF width >= RC_IN_PULSE_MIN_US /\ width <= RC_IN_PULSE_MAX_US
             THEN PulseWidth(p) = width /\ PulseTime(p) = isr.now_us
             ELSE PulseWidth(p) = pre.width[p] /\ PulseTime(p) = pre.time[p]
        /\ (isr.level = 0 /\ pre.rise[p] = 0) =>
             (PulseWidth(p) = pre.width[p] /\ PulseTime(p) = pre.time[p])
        /\ \A q \in Pins \ {p} :
             /\ PulseWidth(q) = pre.width[q]
             /\ PulseTime(q) = pre.time[q]
             /\ LastRise(q) = pre.rise[q]

\* an in-range falling edge has been stored while the other channel holds a
\* reading of its own
C12_Witness ==
  /\ isr.pc = "exit" /\ isr.level = 0 /\ isr.pre.rise[isr.gpio_num] # 0
  /\ PulseTime(isr.gpio_num) = isr.now_us
  /\ PulseTime(isr.gpio_num) # isr.pre.time[isr.gpio_num]
  /\ \E q \in Pins \ {isr.gpio_num} : PulseWidth(q) # 0

(* C13: signal loss.  A read of a channel whose last valid pulse ended       *)
(* RC_IN_TIMEOUT_MS or more before the read's clock read, however long       *)
(* before, returns no value.                                                 *)
C13_SignalLoss ==
  (rd.pc = "done" /\ (rd.gt = Never \/ rd.at - rd.gt >= RC_IN_TIMEOUT_MS * 1000))
    => rd.out = <<>>

(* C14: a fresh reading is visible.  A read made after the ISR has handled   *)
(* an in-range falling edge, less than RC_IN_TIMEOUT_MS after that edge,     *)
(* returns a value, whatever the counter's value at the two edges.           *)
C14_FreshReadingVisible ==
  (rd.pc = "done" /\ rd.g # Never /\ rd.at - rd.g < RC_IN_TIMEOUT_MS * 1000)
    => rd.out # <<>>

(* C15: a read copies a (timestamp, width) pair written by one and the same  *)
(* falling edge, under any interleaving with the ISR; the ISR's updates and  *)
(* the read's copies are made inside the s_rc_mux critical section.          *)
C15_ConsistentPair ==
  /\ rd.pc \in {"exit", "chan", "done"} => rd.gt = rd.gw
  /\ isr.pc \in {"body", "time", "clear", "exit"} => s_rc_mux = "isr"
  /\ rd.pc \in {"time", "width", "exit"} => s_rc_mux = "task"

\* a read that was called while the ISR was between its two stores for the
\* same channel has returned that edge's pair
C15_Witness ==
  /\ rd.pc = "done" /\ rd.conc
  /\ rd.gt # Never /\ rd.gt = rd.gw /\ rd.gt = rd.at
  /\ rd.out # <<>>

(* C16: pulse mapping round trip.  For every x in [-1, 1], x converted to a  *)
(* pulse width (1000/1500/2000 us) and that width converted back differs     *)
(* from x by at most what one microsecond of pulse width stands for; 0 gives *)
(* 1500 and 0, 1 gives 2000 and 1, -1 gives 1000 and -1, -0.5 gives 1250 and *)
(* -0.5.                                                                     *)
C16_PulseRoundTrip ==
  (Len(fn_in) = 1 /\ fn_out # <<>>) =>
    LET x == fn_in[1]
    IN  /\ Len(fn_out) = 2
        /\ Abs(fn_out[2] - x) * 500 <= ONE
        /\ x = 0 => fn_out = <<1500, 0>>
        /\ x = ONE => fn_out = <<2000, ONE>>
        /\ x = -ONE => fn_out = <<1000, -ONE>>
        /\ x = -(ONE \div 2) => fn_out = <<1250, -(ONE \div 2)>>

\* -0.5 has gone to 1250 us and back
C16_Witness ==
  /\ fn_in = <<-(ONE \div 2)>>
  /\ fn_out = <<1250, -(ONE \div 2)>>

(* C17: in every telemetry frame the stm32 main loop builds, the status byte  *)
(* has bit0 set iff RC is active, bit1 set iff the network source is active,  *)
(* bit2 set iff the failsafe is active and no other bit set; the "link"       *)
(* object the esp32 builds from the frame has rc_ok equal to bit0 and wifi_ok *)
(* equal to bit1, hence equal to the two flags.  A frame is in telem only     *)
(* until the next iteration's first step, while the flags are still those it  *)
(* was built from.                                                            *)
C17_StatusByte ==
  /\ (target = "stm32" /\ telem # <<>>) =>
       /\ telem[1].status \in 0..255
       /\ (telem[1].status % 2 = 1) <=> rc_active
       /\ ((telem[1].status \div 2) % 2 = 1) <=> wifi_active
       /\ ((telem[1].status \div 4) % 2 = 1) <=> failsafe_active
       /\ telem[1].status \div 8 = 0
  /\ (target = "stm32" /\ esp_link # <<>>) =>
       /\ telem # <<>>
       /\ esp_link[1].rc_ok <=> (telem[1].status % 2 = 1)
       /\ esp_link[1].wifi_ok <=> ((telem[1].status \div 2) % 2 = 1)
       /\ esp_link[1].rc_ok <=> rc_active
       /\ esp_link[1].wifi_ok <=> wifi_active

\* a frame built while only the network source is active has reached the esp32
C17_Witness ==
  /\ target = "stm32"
  /\ telem # <<>> /\ esp_link # <<>>
  /\ wifi_active /\ ~rc_active /\ ~failsafe_active
  /\ telem[1].status = 2
  /\ esp_link[1].wifi_ok /\ ~esp_link[1].rc_ok

(* C18: the first telemetry frame of the stm32 main loop has seq 0 and every *)
(* later frame has the previous frame's seq plus 1 modulo 2^SeqBits (2^16 in *)
(* the code), also across the wrap from the largest value to 0: the n-th     *)
(* frame carries (n - 1) mod 2^SeqBits, so none is skipped or repeated.      *)
C18_TelemSeq ==
  /\ telem_seq \in 0..(SeqMod - 1)
  /\ telem_seq = frames % SeqMod
  /\ (target = "stm32" /\ telem # <<>>) =>
       /\ frames >= 1
       /\ telem[1].seq = (frames - 1) % SeqMod

\* the frame after the one with the largest seq: seq is 0 again
C18_Witness ==
  /\ target = "stm32"
  /\ telem # <<>>
  /\ frames = SeqMod + 1
  /\ telem[1].seq = 0

\* the control loop is running: pc is one of its steps
LoopRunning == pc \in {"rc", "cmd", "imu", "failsafe", "pwm", "telem"}

S3TelemOfFreshSample ==
  S3TelemJson(rc_active, wifi_active, failsafe_active, s_imu_enabled, imu_data,
              applied_throttle, applied_steering)

(* C20: a failed IMU read (Mpu6050Spi::Read returns -1) leaves the caller's  *)
(* ImuData unchanged, the loop goes on to the failsafe and PWM steps of the  *)
(* same iteration, and the telemetry built in that iteration is marked as    *)
(* carrying a stale sample: it differs from the telemetry of a fresh sample  *)
(* with the same values.                                                     *)
C20_FailedImuRead ==
  [][/\ (pc = "imu" /\ imu_ret' = "fail") =>
          /\ imu_data' = imu_data
          /\ pc' = "failsafe"
     /\ (pc = "telem" /\ imu_ret = "fail" /\ telem' # <<>>) =>
          telem'[1] # S3TelemOfFreshSample]_vars

(* C24: network activity window (esp32_s3).  After the arbitration of an     *)
(* iteration wifi_active is true iff RC is inactive and the control task     *)
(* accepted a network command less than WIFI_CMD_TIMEOUT_MS ago, for a       *)
(* command accepted at any value of the millisecond clock, 0 included.       *)
C24_WifiActiveWindow ==
  (target = "s3" /\ pc \in {"imu", "failsafe", "pwm", "telem"}) =>
    (wifi_active <=>
       (~rc_active /\ wifi_acc # Never
          /\ Elapsed - wifi_acc < WIFI_CMD_TIMEOUT_MS))

\* the flags a telemetry message reports
TelemRcOk ==
  IF target = "s3" THEN telem[1].link.rc_ok ELSE telem[1].status % 2 = 1
TelemWifiOk ==
  IF target = "s3" THEN telem[1].link.wifi_ok
  ELSE (telem[1].status \div 2) % 2 = 1
TelemFailsafe ==
  IF target = "s3" THEN telem[1].link.failsafe
  ELSE (telem[1].status \div 4) % 2 = 1

(* C26: every telemetry message that is built reports failsafe active only   *)
(* if it reports neither rc_ok nor wifi_ok (both targets).                   *)
C26_TelemFailsafeRule ==
  (telem # <<>> /\ TelemFailsafe) => (~TelemRcOk /\ ~TelemWifiOk)

\* the step of the iteration that runs a periodic action
StepOfRcPoll == "rc"
StepOfPwm == "pwm"
StepOfFailsafe == "failsafe"
StepOfTelem == "telem"

\* the periodic action with timestamp last and its new value last2 runs in
\* this step iff the step is the loop's step of that action and interval ms
\* or more have passed on the wrapping clock
RunsIffDue(step, enabled, last, last2, interval) ==
  last2 = IF pc = step /\ pc' # pc /\ enabled
             /\ (now - last) % TimerMod >= interval
          THEN now ELSE last

(* C27: periodic scheduling (both targets).  In every iteration each         *)
(* periodic action (RC poll, PWM update: 20 ms; failsafe update: 10 ms;      *)
(* telemetry: 50 ms) runs iff its interval has elapsed since it last ran, on *)
(* the wrapping millisecond clock: at most once per interval, and in the     *)
(* first iteration after the interval has elapsed.  The telemetry step ends  *)
(* the iteration with or without a WebSocket client, after the arbitration,  *)
(* failsafe and PWM steps.                                                   *)
C27_PeriodicScheduling ==
  [][/\ RunsIffDue(StepOfRcPoll, s_rc_enabled, last_rc_poll, last_rc_poll',
                   RC_IN_POLL_INTERVAL_MS)
     /\ RunsIffDue(StepOfPwm, TRUE, last_pwm_update, last_pwm_update',
                   PWM_UPDATE_INTERVAL_MS)
     /\ RunsIffDue(StepOfFailsafe, TRUE, last_failsafe_update,
                   last_failsafe_update', FAILSAFE_UPDATE_INTERVAL_MS)
     /\ RunsIffDue(StepOfTelem, TRUE, last_telem_send, last_telem_send',
                   TELEM_SEND_INTERVAL_MS)
     /\ (pc = StepOfFailsafe /\ pc' # pc) =>
          (fs_ret' # "skip" <=>
             (now - last_failsafe_update) % TimerMod >= FAILSAFE_UPDATE_INTERVAL_MS)
     /\ (pc = StepOfTelem /\ pc' # pc) =>
          /\ pc' = (IF target = "s3" THEN "rc" ELSE "pwm")
          /\ now' = (now + loop_ms) % TimerMod
     /\ (pc' # pc /\ pc # StepOfTelem) => now' = now]_vars

\* a PWM update and a telemetry message after the clock has wrapped
C27_Witness ==
  /\ pc = "rc" /\ target = "s3"
  /\ telem # <<>>
  /\ last_telem_send < TELEM_SEND_INTERVAL_MS
  /\ last_pwm_update <= last_telem_send
  /\ now < BootMs

\* distance left after a step of max_per_sec * dt_ms / 1000, times 1000
DistanceLeft(d, max_per_sec, dt_ms) ==
  IF d * 1000 <= max_per_sec * dt_ms THEN 0 ELSE d * 1000 - max_per_sec * dt_ms

(* C28: slew convergence.  With the failsafe inactive, a PWM update moves    *)
(* applied toward commanded by max_rate * dt, never past it and never away   *)
(* from it: the distance left shrinks by exactly max_rate * dt (dt >= the    *)
(* PWM interval > 0) until it is 0, so applied reaches exactly commanded     *)
(* after finitely many updates with commanded held, and an update with       *)
(* applied = commanded leaves it there.  On stm32 the loop's single value is *)
(* both commanded and applied and an update leaves it as it is.              *)
C28_SlewConvergence ==
  [][(pc = "pwm" /\ last_pwm_update' # last_pwm_update /\ ~failsafe_active) =>
       LET dt == (now - last_pwm_update) % TimerMod
       IN  /\ dt >= PWM_UPDATE_INTERVAL_MS
           /\ Commanded' = Commanded
           /\ target = "s3" =>
                /\ Abs(commanded_throttle - applied_throttle') * 1000 =
                     DistanceLeft(Abs(commanded_throttle - applied_throttle),
                                  SLEW_RATE_THROTTLE_MAX_PER_SEC, dt)
                /\ Abs(commanded_steering - applied_steering') * 1000 =
                     DistanceLeft(Abs(commanded_steering - applied_steering),
                                  SLEW_RATE_STEERING_MAX_PER_SEC, dt)
                /\ (applied_throttle' - applied_throttle)
                     * (commanded_throttle - applied_throttle) >= 0
                /\ (applied_steering' - applied_steering)
                     * (commanded_steering - applied_steering) >= 0
                /\ PwmOut' = Applied'
           /\ target = "stm32" => Applied' = Applied /\ Applied' = Commanded']_vars

\* an update has just brought steering to its commanded value while throttle
\* is still on its way
C28_Witness ==
  /\ target = "s3" /\ pc = "telem" /\ last_pwm_update = now
  /\ ~failsafe_active
  /\ commanded_steering # 0 /\ applied_steering = commanded_steering
  /\ applied_throttle # 0 /\ applied_throttle # commanded_throttle

(* C29: in every state of the esp32_s3 control task commanded and applied    *)
(* throttle and steering are within [-1, 1] (RC readings are in [-1, 1],     *)
(* network commands come through VehicleControlOnWifiCommand).               *)
C29_ControlStateInRange ==
  target = "s3" =>
    /\ InUnit(commanded_throttle) /\ InUnit(commanded_steering)
    /\ InUnit(applied_throttle) /\ InUnit(applied_steering)

\* a submission of (5.0, -5.0) has become commanded as (1.0, -1.0)
C29_Witness ==
  /\ target = "s3" /\ pc = "imu"
  /\ cmd = <<Cmd(ONE, -ONE)>>
  /\ commanded_throttle = ONE /\ commanded_steering = -ONE

(* C30: in every state in which FailsafeUpdate is called or telemetry is     *)
(* built (before the failsafe step and before the telemetry step of an       *)
(* iteration), rc_active and wifi_active are not both true (both targets).   *)
C30_NotBothActive ==
  pc \in {"failsafe", "telem"} => ~(rc_active /\ wifi_active)

\* RC is active in an iteration that received a network command, and another
\* command was accepted less than WIFI_CMD_TIMEOUT_MS ago
C30_Witness ==
  /\ pc = "failsafe" /\ rc_active /\ ~wifi_active
  /\ cmd # <<>>
  /\ target = "s3" =>
       (last_wifi_cmd_ms # 0 /\ (now - last_wifi_cmd_ms) % TimerMod < WIFI_CMD_TIMEOUT_MS)

----------------------------------------------------------------------------
\* C21: UartBridgeIsMcuConnected answers false until the first PONG has been
\* received, and afterwards true exactly while less than PONG_TIMEOUT_MS has
\* passed since the most recently received PONG, whatever the tick at which
\* the PONG came (tick 0 included) and across the wrap of the tick counter.
C21_Heartbeat ==
  (target = "pong" /\ fn_out # <<>>) =>
    (fn_out[1] <=> (fn_in.pong_real # Never
                    /\ fn_in.real - fn_in.pong_real < PONG_TIMEOUT_MS))

----------------------------------------------------------------------------
\* the fetched records with this SSID
RecordsOf(records, ssid) ==
  {records[i] : i \in {k \in 1..Len(records) : records[k].ssid = ssid}}

ScanCapacityKept ==
  (target = "scan" /\ fn_out # <<>> /\ fn_out[1] = "ESP_OK") =>
    /\ Len(fn_out[2]) <= fn_in[2]
    /\ fn_out[3] = Len(fn_out[2])

ScanNoDuplicates ==
  (target = "scan" /\ fn_out # <<>> /\ fn_out[1] = "ESP_OK") =>
    \A j, k \in 1..Len(fn_out[2]) :
      /\ fn_out[2][j].ssid # ""
      /\ j # k => fn_out[2][j].ssid # fn_out[2][k].ssid

ScanStrongest ==
  (target = "scan" /\ fn_out # <<>> /\ fn_out[1] = "ESP_OK") =>
    \A j \in 1..Len(fn_out[2]) :
      LET e == fn_out[2][j]
      IN  /\ \A r \in RecordsOf(fn_in[1], e.ssid) : r.rssi <= e.rssi
          /\ \E r \in RecordsOf(fn_in[1], e.ssid) :
               r.rssi = e.rssi /\ r.primary = e.channel /\ r.authmode = e.authmode

\* C23: on success the output holds at most the capacity passed in, the count
\* put out is the number of entries written, no two entries have the same
\* SSID, no entry has an empty SSID, and each entry carries the strongest RSSI
\* (with its channel and authmode) among all fetched records with its SSID,
\* for every order of the records and every capacity >= 1.
C23_ScanResult == ScanCapacityKept /\ ScanNoDuplicates /\ ScanStrongest

----------------------------------------------------------------------------
\* the iteration's RC poll is due (vehicle_control.cpp:63, main.cpp:91) and
\* this step is the poll
RcPollStep ==
  /\ pc = "rc" /\ pc' = "cmd"
  /\ target = "s3" => s_rc_enabled
  /\ Sub32(now, last_rc_poll) >= RC_IN_POLL_INTERVAL_MS

\* both reads of ReadChannel on the stored pulses, at the same clock value
BothReadsHaveValue ==
  /\ ReadChannel(s_last_throttle_pulse_time_us, s_last_throttle_pulse_width_us,
                 timer_us) # <<>>
  /\ ReadChannel(s_last_steering_pulse_time_us, s_last_steering_pulse_width_us,
                 timer_us) # <<>>

\* C25: after an RC poll rc_active is true iff both the throttle read and the
\* steering read of that poll returned a value; with one channel only,
\* commanded is not taken from RC and a network command of the same iteration
\* is taken; RcInputIsActive() is true in exactly the states in which both
\* reads would return a value at the same instant.
C25_BothChannels ==
  /\ [][RcPollStep =>
          /\ rc_active' <=> (rc_throttle' # <<>> /\ rc_steering' # <<>>)
          /\ rc_active' => Commanded' = <<rc_throttle'[1], rc_steering'[1]>>
          /\ ~rc_active' => Commanded' = Commanded]_vars
  /\ [][(pc = "cmd" /\ pc' # pc /\ ~rc_active /\ Stored # <<>>) =>
          Commanded' = <<Head(Stored).throttle, Head(Stored).steering>>]_vars
  /\ [](target = "rc" =>
          (RcInputIsActive(s_last_throttle_pulse_time_us,
                           s_last_steering_pulse_time_us, timer_us)
             <=> BothReadsHaveValue))

\* the poll of this iteration got a throttle value and no steering value, and
\* the network command received after it has been taken
C25_Witness ==
  /\ target = "s3" /\ pc = "imu"
  /\ last_rc_poll = now
  /\ rc_throttle # <<>> /\ rc_steering = <<>>
  /\ ~rc_active
  /\ cmd # <<>> /\ Commanded = <<cmd[1].throttle, cmd[1].steering>>
  /\ Commanded # <<0, 0>>
  /\ wifi_active

----------------------------------------------------------------------------
\* the messages parsed so far are none, or the valid one alone
CodecNoSpurious == fn_out.msgs \in {<<>>, <<fn_in.good>>}

\* everything has been delivered and the receive call after it found no
\* further message
CodecDrained == fn_in.wire = <<>> /\ fn_out.ret = "none"

CodecStream == fn_in.bad \o Encode(fn_in.good)
ValidFrameAt == Len(fn_in.bad) + 1

\* no run of bytes of the stream other than the valid frame is itself a
\* well-formed frame
NoOtherFrame ==
  \A i \in 1..Len(CodecStream) :
    WellFormed(SubSeq(CodecStream, i, Len(CodecStream))) => i = ValidFrameAt

----------------------------------------------------------------------------
\* every PING so far has been answered inside the window
AnsweredInTime ==
  /\ ~fn_in.late
  /\ fn_in.pending # <<>> => PongInWindow(fn_in.pending[1], fn_in.real)

\* C31: if every PING is answered by a PONG that the bridge task receives less
\* than PONG_TIMEOUT_MS - PING_INTERVAL_MS after the PING was sent, then from
\* the first received PONG on UartBridgeIsMcuConnected is true at every later
\* instant; PINGs are sent at most once per PING_INTERVAL_MS, the first one
\* once the uptime reaches PING_INTERVAL_MS.
C31_HeartbeatLiveness ==
  target = "bridge" =>
    /\ (fn_in.pong_seen /\ AnsweredInTime) =>
         IsMcuConnected(fn_in.s_last_pong_tick, fn_in.tick)
    /\ fn_in.ping_gap >= PING_INTERVAL_MS
    /\ fn_in.pc # "ping" => (fn_in.pings >= 1 <=> fn_in.real >= PING_INTERVAL_MS)

----------------------------------------------------------------------------
\* C32: after a WiFiStaConnect call with a valid SSID and until the next
\* WiFiStaDisconnect call, every STA_DISCONNECTED event sets status.connected
\* to false and triggers a reconnect attempt; after WiFiStaDisconnect and
\* until the next WiFiStaConnect, neither a STA_DISCONNECTED nor a STA_START
\* event triggers a connect attempt.
C32_AutoReconnect ==
  target = "wifi" =>
    /\ (fn_in.last_ev.id = "WIFI_EVENT_STA_DISCONNECTED" /\ fn_in.last_ev.stable)
         => fn_in.last_ev.attempted
    /\ (fn_in.ev # NoEvent /\ fn_in.ev.id = "WIFI_EVENT_STA_DISCONNECTED"
        /\ fn_in.ev.pc # "connected" /\ fn_in.call = NoCall)
         => ~fn_in.s_sta_status.connected
    /\ fn_in.attempt_phase # "disconnect"

\* C33: in every snapshot returned by WiFiStaGetStatus, connected is true iff
\* ip is non-empty, and configured false implies ssid empty, under any
\* interleaving of the events with WiFiStaConnect and WiFiStaDisconnect.
C33_StatusSnapshot ==
  (target = "wifi" /\ fn_out # <<>>) =>
    /\ fn_out[1].connected <=> fn_out[1].ip # ""
    /\ ~fn_out[1].configured => fn_out[1].ssid = ""

\* a snapshot taken after GOT_IP and one more event, while a call is in
\* progress
C33_Witness ==
  /\ target = "wifi" /\ fn_out # <<>>
  /\ fn_out[1].connected /\ fn_out[1].ip # ""
  /\ fn_out[1].configured
  /\ fn_in.call # NoCall
  /\ fn_in.events >= 2

----------------------------------------------------------------------------
\* C34: each channel's stored pulse width is 0 together with a time stamp of 0
\* (no valid pulse yet) or lies in [RC_IN_PULSE_MIN_US, RC_IN_PULSE_MAX_US];
\* a channel's stored time stamp changes only in the ISR run that has stored
\* its width; every falling edge leaves the recorded rising-edge time cleared.
C34_StoredPulse ==
  /\ [](target = "rc" =>
          /\ \A p \in Pins :
               \/ PulseWidth(p) = 0 /\ PulseTime(p) = 0
               \/ WidthInRange(PulseWidth(p)) /\ InPulseRange(PulseWidth(p))
          /\ (isr.pc = "exit" /\ isr.level = 0) => LastRise(isr.gpio_num) = 0)
  /\ [][\A p \in Pins :
          (target = "rc" /\ PulseTime(p)' # PulseTime(p)) =>
            /\ isr.pc = "time" /\ isr.gpio_num = p /\ isr.level = 0
            /\ PulseWidth(p) = SubUs(isr.now_us, isr.pre.rise[p])
            /\ PulseWidth(p)' = PulseWidth(p)
            /\ PulseTime(p)' = isr.now_us]_vars

\* a glitch on a channel that holds a valid pulse: the falling edge's width
\* was out of range, the stored pair is the old one, the rise is cleared
C34_Witness ==
  /\ target = "rc" /\ isr.pc = "exit" /\ isr.level = 0
  /\ isr.pre.rise[isr.gpio_num] # 0
  /\ ~InPulseRange(SubUs(isr.now_us, isr.pre.rise[isr.gpio_num]))
  /\ PulseWidth(isr.gpio_num) # 0
  /\ PulseTime(isr.gpio_num) = isr.pre.time[isr.gpio_num]
  /\ LastRise(isr.gpio_num) = 0

----------------------------------------------------------------------------
\* the step is a call from outside of one of the named functions
StartCallStep(names) ==
  /\ target = "start"
  /\ fn_in'.calls = fn_in.calls + 1
  /\ fn_in'.last \in names

PwmSetters == {"PwmControlSetThrottle", "PwmControlSetSteering",
               "PwmControlSetNeutral"}

\* duty is the LEDC duty of a neutral pulse: PWM_NEUTRAL_US of the period,
\* rounded down to the timer's resolution
IsNeutralDuty(duty, s_duty_resolution) ==
  /\ duty * PeriodUs <= PWM_NEUTRAL_US * DutyMax(s_duty_resolution)
  /\ PWM_NEUTRAL_US * DutyMax(s_duty_resolution) < (duty + 1) * PeriodUs

StartState(st) == [st EXCEPT !.calls = 0, !.last = "none"]

\* C36: once a call of VehicleControlInit has returned ESP_OK, every further
\* call returns ESP_OK and neither initialises the PWM nor creates a queue or
\* a task; at most one control task exists; VehicleControlOnWifiCommand called
\* while there is no queue changes nothing.
C36_InitIdempotent ==
  /\ [][(StartCallStep({"VehicleControlInit"}) /\ fn_in.ok_seen) =>
          /\ fn_in'.ret = "ESP_OK"
          /\ StartState(fn_in') = StartState(fn_in)]_vars
  /\ [](target = "start" => Len(fn_in.tasks) <= 1)
  /\ [][(StartCallStep({"VehicleControlOnWifiCommand"})
         /\ fn_in.s_cmd_queue = 0) =>
          StartState(fn_in') = StartState(fn_in)]_vars

\* VehicleControlInit called again after a success and a network command
C36_Witness ==
  /\ target = "start"
  /\ fn_in.calls = 3
  /\ fn_in.last = "VehicleControlInit"
  /\ fn_in.ret = "ESP_OK"
  /\ fn_in.pwm_inits = 1
  /\ fn_in.queues = 1
  /\ Len(fn_in.tasks) = 1
  /\ fn_in.queue_item # <<>>

----------------------------------------------------------------------------
\* the scale Read divides raw register i by
ImuScaleOf(i) == IF i <= 3 THEN MPU6050_ACCEL_SCALE ELSE MPU6050_GYRO_SCALE

\* raw / scale * 1000, fraction dropped
ImuMilli(regs, i) == TruncDiv(regs[i] * 1000, ImuScaleOf(i))

\* C37: for every sample Read can produce, each int16_t output of
\* ConvertToTelem is the value times 1000 truncated toward zero, and that
\* value lies within [-32768, 32767].
C37_TelemFitsInt16 ==
  (target = "imu16" /\ fn_out # <<>>) =>
    \A i \in 1..6 :
      /\ fn_out[2][i] = ImuMilli(fn_in, i)
      /\ FitsInt16(ImuMilli(fn_in, i))

----------------------------------------------------------------------------
\* every call of platform_delay_ms returns
DelayReturns ==
  (target = "delay" /\ fn_in.pc = "loop") ~> (fn_in.pc = "returned")

\* C38: platform_delay_ms(ms) returns only after the millisecond counter has
\* advanced by at least ms since the call, whatever the counter's value at
\* the call (values within ms of the wrap-around included), and it returns
\* eventually while the tick interrupt keeps incrementing the counter.
C38_PlatformDelay ==
  /\ []((target = "delay" /\ fn_in.pc = "returned") =>
          fn_in.elapsed >= fn_in.ms)
  /\ DelayReturns

====
